---- MODULE Spec2Model ----
(***************************************************************************)
(* Critical Speed calculator (src/critical-speed-run.py): the parameter    *)
(* estimators and the D' balance simulator.                                *)
(*                                                                         *)
(* Numbers.  The program computes in IEEE 754 doubles.  The simulator is   *)
(* modelled in doubles: a double is <<s, e, hi, lo>>, and +, -, * and /    *)
(* round to the nearest double, ties to even, as the hardware does.  The   *)
(* last place of np.exp depends on the build of numpy, so np.exp has a set *)
(* of values, the doubles next to the exponential that a build can return, *)
(* and a call of the simulator a set of outcomes.  The estimators, the     *)
(* paces and the race predictions are modelled in exact rationals <<n, d>> *)
(* in lowest terms with d > 0, so +, -, * and / are the real operations    *)
(* the doubles approximate; where the code floors a double whose rational  *)
(* is a whole number, the rounding of the double decides the floor, and    *)
(* both outcomes are kept.                                                 *)
(*                                                                         *)
(* A call of a function is one action: it records the function's name in   *)
(* fn, its arguments in args, the value it returns in ret, the exception   *)
(* it raises (or "none") in exc, and in fitted whether it ran curve_fit.   *)
(* A run of the page records the call that decided it: the estimator of a  *)
(* run with Calculate pressed, d_prime_balance of a run with Run           *)
(* Simulation pressed (args then also holds the duration, the profile and  *)
(* the settings the run read from its widgets), or the step that raised.   *)
(* series is the caller's series as a simulator call leaves it.  session   *)
(* is what the browser holds between two runs of the script: the values of *)
(* the simulator's two number inputs (sim_cs, sim_dprime), whether the     *)
(* latest run reached the simulator section (rendered) and found cs and    *)
(* d_prime there (simulate_enabled), and what the latest run displayed     *)
(* (results); estimate is a history field that remembers the last pair a   *)
(* press of Calculate produced.                                            *)
(***************************************************************************)
EXTENDS Integers, Sequences, FiniteSets, TLC

VARIABLES fn, args, ret, exc, fitted, series, session

vars == <<fn, args, ret, exc, fitted, series, session>>

(***************************************************************************)
(* Rational arithmetic                                                     *)
(***************************************************************************)
Abs(a) == IF a < 0 THEN -a ELSE a

RECURSIVE GCD(_, _)
GCD(a, b) == IF b = 0 THEN a ELSE GCD(b, a % b)

\* n/d in lowest terms with a positive denominator (d # 0)
Norm(n, d) ==
    LET g == GCD(Abs(n), Abs(d))
        s == IF d < 0 THEN -1 ELSE 1
    IN  <<s * (n \div g), s * (d \div g)>>

R(n) == <<n, 1>>
Zero == R(0)
One == R(1)

RAdd(x, y) ==
    LET g == GCD(x[2], y[2])
    IN  Norm(x[1] * (y[2] \div g) + y[1] * (x[2] \div g), (x[2] \div g) * y[2])

RSub(x, y) == RAdd(x, <<-y[1], y[2]>>)

RMul(x, y) ==
    LET g1 == GCD(Abs(x[1]), y[2])
        g2 == GCD(Abs(y[1]), x[2])
    IN  IF x[1] = 0 \/ y[1] = 0 THEN Zero
        ELSE Norm((x[1] \div g1) * (y[1] \div g2), (x[2] \div g2) * (y[2] \div g1))

\* x / y for y # 0
RDiv(x, y) == RMul(x, Norm(y[2], y[1]))

RLt(x, y) ==
    LET g == GCD(x[2], y[2])
    IN  x[1] * (y[2] \div g) < y[1] * (x[2] \div g)

(***************************************************************************)
(* IEEE 754 binary64, the float of Python and the float64 of numpy.  A     *)
(* double is <<s, e, hi, lo>>: the sign s in {-1, 0, 1}, the exponent e    *)
(* and the significand M = hi * 2^28 + lo of 53 binary digits; its value   *)
(* is s * M * 2^(e - 52).  A normal double has 2^52 <= M < 2^53 and        *)
(* -1022 <= e <= 1023, a subnormal one e = -1022 and M < 2^52; zero is     *)
(* <<0, 0, 0, 0>>, the infinities are <<1, 1024, 0, 0>> and                *)
(* <<-1, 1024, 0, 0>>, nan is <<0, 1024, 0, 0>>.  Every double has one     *)
(* form, so that = is ==, except that nan = nan here; -0.0 is not told     *)
(* from 0.0 (they are equal in the code, and no divisor of the code is a   *)
(* negative zero for the inputs used here).  An operation computes the     *)
(* exact result to 56 binary digits, the last one set when anything was    *)
(* lost below it, and rounds that to nearest, ties to even.                *)
(***************************************************************************)
Word == 2^28
Digit == 2^14

float64_zero == <<0, 0, 0, 0>>
nan == <<0, 1024, 0, 0>>
inf(s) == <<s, 1024, 0, 0>>
IsNaN(a) == a = nan
IsInf(a) == a[2] = 1024 /\ a[1] # 0

\* the number of binary digits of n, 0 <= n < 2^31
BitLen(n) == CHOOSE k \in 0..31 : (k = 31 \/ n < 2^k) /\ (k = 0 \/ n >= 2^(k - 1))

\* the last digit of l set when digits were lost below it
Jam(l, lost) == IF lost /\ l % 2 = 0 THEN l + 1 ELSE l

\* the two words h * 2^28 + l shifted left by k digits, the result below 2^56
ShiftLeft(h, l, k) ==
    IF k = 0 THEN <<h, l>>
    ELSE IF k < 28 THEN <<h * 2^k + l \div 2^(28 - k), (l % 2^(28 - k)) * 2^k>>
    ELSE <<l * 2^(k - 28), 0>>

\* shifted right by d digits, 0 <= d <= 56, what is lost jammed into the last
ShiftRightJam(h, l, d) ==
    IF d = 0 THEN <<h, l>>
    ELSE IF d < 28
    THEN <<h \div 2^d, Jam(l \div 2^d + (h % 2^d) * 2^(28 - d), l % 2^d # 0)>>
    ELSE <<0, Jam(h \div 2^(d - 28), h % 2^(d - 28) # 0 \/ l # 0)>>

\* the double of the rounded significand rh * 2^28 + rl at exponent e: 0,
\* a significand carried over to 2^53, inf from 2^1024
Pack(s, e, rh, rl) ==
    IF rh = 0 /\ rl = 0 THEN float64_zero
    ELSE IF rh = 2^25 THEN (IF e + 1 > 1023 THEN inf(s) ELSE <<s, e + 1, 2^24, 0>>)
    ELSE IF e > 1023 THEN inf(s)
    ELSE <<s, e, rh, rl>>

\* the significand mh * 2^28 + ml raised by one digit of the last place or not
RoundUp(s, e, mh, ml, up) ==
    Pack(s, e, IF up /\ ml + 1 = Word THEN mh + 1 ELSE mh,
               IF up THEN (ml + 1) % Word ELSE ml)

\* the 56 digits f cut into the 53 of the significand and the three below,
\* rounded to nearest, ties to even
RoundFrame(s, e, f) ==
    IF f = <<0, 0>> THEN float64_zero
    ELSE RoundUp(s, e, f[1] \div 8, (f[1] % 8) * 2^25 + f[2] \div 8,
                 f[2] % 8 > 4 \/ (f[2] % 8 = 4 /\ (f[2] \div 8) % 2 = 1))

\* the significand shifted right by sh digits to the exponent -1022
RoundShift(s, E, h, l, sh) ==
    RoundFrame(s, IF sh > 0 THEN -1022 ELSE E, ShiftRightJam(h, l, sh))

\* the double nearest to s * (h * 2^28 + l) * 2^(E - 55), 2^55 <= h * 2^28 + l:
\* subnormal below 2^-1022, 0 below half the least subnormal, inf from 2^1024
RoundPack(s, E, h, l) ==
    IF h + l = 0 THEN float64_zero
    ELSE RoundShift(s, E, h, l,
                    IF E < -1022 THEN (IF -1022 - E > 56 THEN 56 ELSE -1022 - E) ELSE 0)

\* the number of binary digits of h * 2^28 + l
SigLen(h, l) == IF h > 0 THEN 28 + BitLen(h) ELSE BitLen(l)

\* the significand h * 2^28 + l shifted left by k digits, the value kept
Normalize(s, e, h, l, k) == <<s, e - k>> \o ShiftLeft(h, l, k)

\* a finite double that is not 0 with its significand brought to 53 digits
Unpack(a) ==
    IF a[3] >= 2^24 THEN a
    ELSE Normalize(a[1], a[2], a[3], a[4], 53 - SigLen(a[3], a[4]))

\* the significand followed by three 0 digits, in two words
FrameHigh(a) == a[3] * 8 + a[4] \div 2^25
FrameLow(a) == (a[4] % 2^25) * 8

\* |a| < |b| for doubles that are not nan
MagLt(a, b) ==
    \/ a[2] < b[2]
    \/ a[2] = b[2] /\ a[3] < b[3]
    \/ a[2] = b[2] /\ a[3] = b[3] /\ a[4] < b[4]

\* -a
float64_neg(a) == <<-a[1], a[2], a[3], a[4]>>

\* the sum h * 2^28 + l of two framed significands, l not yet below 2^28, as
\* <<exponent, high word, low word>> of 56 digits
AddSame(e, h, l) ==
    IF h >= Word
    THEN <<e + 1, h \div 2, Jam((l % Word) \div 2 + (h % 2) * 2^27, l % 2 = 1)>>
    ELSE <<e, h, l % Word>>

\* the difference h * 2^28 + l of two framed significands brought back to 56
\* digits by a shift of k; <<>> when it is 0
SubDifference(e, h, l, k) ==
    IF h = 0 /\ l = 0 THEN <<>> ELSE <<e - k>> \o ShiftLeft(h, l, k)

\* the framed significand bh, bl of the bigger number and the aligned one t
\* of the smaller added (equal signs) or subtracted
AddFramed(same, e, bh, bl, t, borrow) ==
    IF same
    THEN AddSame(e, bh + t[1] + (bl + t[2]) \div Word, bl + t[2])
    ELSE SubDifference(e, bh - t[1] - borrow, bl - t[2] + borrow * Word,
                       56 - SigLen(bh - t[1] - borrow, bl - t[2] + borrow * Word))

\* the frame of big + small, the framed significand of small aligned to t
AddAligned(big, small, t) ==
    AddFramed(big[1] = small[1], big[2], FrameHigh(big), FrameLow(big), t,
              IF FrameLow(big) < t[2] THEN 1 ELSE 0)

\* the sum of sign s and of the frame w rounded; no frame is the sum 0
RoundSum(s, w) == IF w = <<>> THEN float64_zero ELSE RoundPack(s, w[1], w[2], w[3])

\* big + small for unpacked doubles with |big| >= |small|: the framed
\* significand of small is brought to the exponent of big
AddMagnitudes(big, small) ==
    RoundSum(big[1],
             AddAligned(big, small,
                        ShiftRightJam(FrameHigh(small), FrameLow(small),
                                      IF big[2] - small[2] > 56 THEN 56
                                      ELSE big[2] - small[2])))

\* a + b
float64_add(a, b) ==
    IF IsNaN(a) \/ IsNaN(b) THEN nan
    ELSE IF IsInf(a) THEN (IF IsInf(b) /\ a[1] # b[1] THEN nan ELSE a)
    ELSE IF IsInf(b) THEN b
    ELSE IF a = float64_zero THEN b
    ELSE IF b = float64_zero THEN a
    ELSE AddMagnitudes(Unpack(IF MagLt(a, b) THEN b ELSE a),
                       Unpack(IF MagLt(a, b) THEN a ELSE b))

\* a - b
float64_sub(a, b) == float64_add(a, float64_neg(b))

\* the four digits of base 2^14 of a significand, lowest first
Digits(h, l) == <<l % Digit, l \div Digit, h % Digit, h \div Digit>>

\* the seven column sums of the product of two significands of four digits
MulDigits(a, b) ==
    <<a[1] * b[1],
      a[1] * b[2] + a[2] * b[1],
      a[1] * b[3] + a[2] * b[2] + a[3] * b[1],
      a[1] * b[4] + a[2] * b[3] + a[3] * b[2] + a[4] * b[1],
      a[2] * b[4] + a[3] * b[3] + a[4] * b[2],
      a[3] * b[4] + a[4] * b[3],
      a[4] * b[4]>>

\* the carries of the seven columns taken upwards: digits of base 2^14, the
\* highest column kept whole
MulCarry(cols) ==
    LET c2 == cols[2] + cols[1] \div Digit
        c3 == cols[3] + c2 \div Digit
        c4 == cols[4] + c3 \div Digit
        c5 == cols[5] + c4 \div Digit
        c6 == cols[6] + c5 \div Digit
    IN  <<cols[1] % Digit, c2 % Digit, c3 % Digit, c4 % Digit, c5 % Digit, c6 % Digit,
          cols[7] + c6 \div Digit>>

\* the product p of two significands, of 105 + sh bits, cut to the 56 bits
\* that are rounded; what is cut off is kept in the lowest bit
MulRound(s, e, p, sh) ==
    RoundPack(s, e + (sh - 7),
              p[6] \div 2^sh + p[7] * 2^(14 - sh),
              Jam(p[4] \div 2^sh + p[5] * 2^(14 - sh) + (p[6] % 2^sh) * 2^(28 - sh),
                  p[4] % 2^sh # 0 \/ p[3] # 0 \/ p[2] # 0 \/ p[1] # 0))

\* the product p has 106 bits when its highest digit has 22, else 105
MulProduct(s, e, p) == MulRound(s, e, p, IF p[7] >= 2^21 THEN 8 ELSE 7)

\* the product of two unpacked numbers that are not zero
MulUnpacked(x, y) ==
    MulProduct(x[1] * y[1], x[2] + y[2],
               MulCarry(MulDigits(Digits(x[3], x[4]), Digits(y[3], y[4]))))

\* a * b: the significands multiplied in digits of base 2^14
float64_mul(a, b) ==
    IF IsNaN(a) \/ IsNaN(b) THEN nan
    ELSE IF IsInf(a) \/ IsInf(b)
    THEN (IF a = float64_zero \/ b = float64_zero THEN nan ELSE inf(a[1] * b[1]))
    ELSE IF a = float64_zero \/ b = float64_zero THEN float64_zero
    ELSE MulUnpacked(Unpack(a), Unpack(b))

\* one more binary digit of the quotient q: the doubled remainder
\* h * 2^28 + l holds the divisor bh * 2^28 + bl or not; <<quotient,
\* remainder>>
DivStep(h, l, bh, bl, q) ==
    IF h > bh \/ (h = bh /\ l >= bl)
    THEN <<2 * q + 1, h - bh - (IF l < bl THEN 1 ELSE 0),
           l - bl + (IF l < bl THEN Word ELSE 0)>>
    ELSE <<2 * q, h, l>>

\* n more binary digits of a long division by bh * 2^28 + bl that stands at
\* st = <<quotient, remainder>>: the first half of them, then the others
RECURSIVE DivDigits(_, _, _, _)
DivDigits(st, bh, bl, n) ==
    IF st = <<>> \/ n = 0 THEN st
    ELSE IF n = 1
    THEN DivStep(2 * st[2] + (2 * st[3]) \div Word, (2 * st[3]) % Word, bh, bl, st[1])
    ELSE DivDigits(DivDigits(st, bh, bl, n \div 2), bh, bl, n - n \div 2)

\* the quotient of 56 digits rounded: first holds the upper 28 and the
\* remainder, second the lower 28, a remainder left jammed into the last
DivRound(s, e, first, second) ==
    RoundPack(s, e, first[1], Jam(second[1], second[2] # 0 \/ second[3] # 0))

\* the lower 28 digits of the quotient divided out of the remainder of first
DivLower(s, e, first, bh, bl) ==
    DivRound(s, e, first, DivDigits(<<0, first[2], first[3]>>, bh, bl, 28))

\* the upper 28 digits: the leading one is known when |x| >= |y|
DivUpper(s, e, x, y, ge) ==
    DivLower(s, e - (IF ge THEN 0 ELSE 1),
             IF ge
             THEN DivDigits(<<1, x[3] - y[3] - (IF x[4] < y[4] THEN 1 ELSE 0),
                              x[4] - y[4] + (IF x[4] < y[4] THEN Word ELSE 0)>>,
                            y[3], y[4], 27)
             ELSE DivDigits(<<0, x[3], x[4]>>, y[3], y[4], 28),
             y[3], y[4])

\* the quotient of two unpacked numbers that are not zero
DivUnpacked(x, y) ==
    DivUpper(x[1] * y[1], x[2] - y[2], x, y,
             ~MagLt(<<0, 0, x[3], x[4]>>, <<0, 0, y[3], y[4]>>))

\* a / b as numpy divides: a division by 0 gives inf or nan (Python's own
\* division raises instead; the caller decides which of the two it is)
float64_div(a, b) ==
    IF IsNaN(a) \/ IsNaN(b) THEN nan
    ELSE IF IsInf(a)
    THEN (IF IsInf(b) THEN nan ELSE inf(a[1] * (IF b[1] = 0 THEN 1 ELSE b[1])))
    ELSE IF IsInf(b) THEN float64_zero
    ELSE IF b = float64_zero THEN (IF a = float64_zero THEN nan ELSE inf(a[1]))
    ELSE IF a = float64_zero THEN float64_zero
    ELSE DivUnpacked(Unpack(a), Unpack(b))

\* float(n) of an integer |n| < 2^31
float(n) ==
    IF n = 0 THEN float64_zero
    ELSE Normalize(IF n < 0 THEN -1 ELSE 1, 52, 0, Abs(n), 53 - BitLen(Abs(n)))

\* the double of a decimal literal or of an entered value n/d: the double
\* nearest to the rational
float64(r) == float64_div(float(r[1]), float(r[2]))

\* a < b and a <= b; a comparison with nan is False
float64_lt(a, b) ==
    /\ ~IsNaN(a)
    /\ ~IsNaN(b)
    /\ IF a[1] # b[1] THEN a[1] < b[1]
       ELSE IF a[1] = 1 THEN MagLt(a, b)
       ELSE IF a[1] = -1 THEN MagLt(b, a)
       ELSE FALSE

float64_le(a, b) == ~IsNaN(a) /\ ~IsNaN(b) /\ ~float64_lt(b, a)

\* int(a // 1) of a finite double 0 <= a < 2^30
float64_floor(a) ==
    IF a[1] = 0 \/ a[2] < 0 THEN 0
    ELSE IF a[2] <= 24 THEN a[3] \div 2^(24 - a[2])
    ELSE a[3] * 2^(a[2] - 24) + a[4] \div 2^(52 - a[2])

\* Python's max(a, b) and min(a, b): the first argument unless the second
\* is strictly greater (strictly smaller)
PyMax(a, b) == IF float64_lt(a, b) THEN b ELSE a
PyMin(a, b) == IF float64_lt(b, a) THEN b ELSE a

(***************************************************************************)
(* np.exp.  The exponential is computed on numbers of 84 binary digits     *)
(* after the point, held as 7 digits of base 2^14 with the least first:    *)
(* |x| = n * ln 2 + r, exp(r) = exp(r / 64)^64 with exp(r / 64) by its     *)
(* Taylor series, and exp(x) = 2^n * exp(r) or 2^-n * exp(-r).  The result *)
(* is 0 below about -745.13 and inf above about 709.78, as the double's    *)
(* range has it.                                                           *)
(* The last place of np.exp depends on the build of numpy: its SIMD        *)
(* kernels and the exp of the C library are each within a little more than *)
(* half a unit in the last place of the exponential, and they round a      *)
(* value that lies near the middle of two doubles to the one or to the     *)
(* other (a kernel returns 1 + x for a small x, the C library the nearest  *)
(* double).  exp(x) is therefore the SET of the doubles a build can        *)
(* return: the doubles within 1/2 + 1/16 of a unit in the last place of    *)
(* the 84-digit value, which are the nearest one, and its neighbour as     *)
(* well when the value is within 1/16 of a unit of the middle of the two.  *)
(* exp(0) = 1, and the exponential of an x below 2^-85 in size is 1.       *)
(***************************************************************************)
\* digit j of a, 0 outside of it
Get(a, j) == IF j >= 1 /\ j <= Len(a) THEN a[j] ELSE 0

\* the 14 binary digits of a from position pos on
Slice(a, pos) ==
    LET q == pos \div 14
        r == pos % 14
    IN  Get(a, q + 1) \div 2^r + (Get(a, q + 2) % 2^r) * 2^(14 - r)

\* a * 2^s cut to 7 digits
BigShift(a, s) ==
    <<Slice(a, -s), Slice(a, 14 - s), Slice(a, 28 - s), Slice(a, 42 - s),
      Slice(a, 56 - s), Slice(a, 70 - s), Slice(a, 84 - s)>>

BigZero == <<0, 0, 0, 0, 0, 0, 0>>
BigOne == <<0, 0, 0, 0, 0, 0, 1>>

\* floor(ln 2 * 2^84)
Ln2 == <<7739, 10994, 3961, 8007, 8575, 11356, 0>>

\* n columns of cols from the k-th on carried upwards onto st = <<digits,
\* carry>>: the first half of them, then the others.  A column below 0
\* borrows: % and \div round downwards.
RECURSIVE Carries(_, _, _, _)
Carries(st, cols, k, n) ==
    IF st = <<>> \/ n = 0 THEN st
    ELSE IF n = 1
    THEN <<Append(st[1], (cols[k] + st[2]) % Digit), (cols[k] + st[2]) \div Digit>>
    ELSE Carries(Carries(st, cols, k, n \div 2), cols, k + n \div 2, n - n \div 2)

\* a + b cut to 7 digits
AddDigits(a, b) == Carries(<<<<>>, 0>>, [k \in 1..7 |-> a[k] + b[k]], 1, 7)[1]

\* a - b for a >= b
BigSub(a, b) == Carries(<<<<>>, 0>>, [k \in 1..7 |-> a[k] - b[k]], 1, 7)[1]

\* the column of 2^(14 * k) of the product a * b
ColumnSum(a, b, k) ==
    ((Get(a, 1) * Get(b, k + 1) + Get(a, 2) * Get(b, k))
     + (Get(a, 3) * Get(b, k - 1) + Get(a, 4) * Get(b, k - 2)))
    + ((Get(a, 5) * Get(b, k - 3) + Get(a, 6) * Get(b, k - 4))
       + Get(a, 7) * Get(b, k - 5))

\* a * b cut off after 84 digits
BigMul(a, b) ==
    SubSeq(Carries(<<<<>>, 0>>, [k \in 1..13 |-> ColumnSum(a, b, k - 1)], 1, 13)[1],
           7, 13)

\* a * n cut to 7 digits, for an integer 0 <= n < 2^14
ScaleDigits(a, n) == Carries(<<<<>>, 0>>, [k \in 1..7 |-> a[k] * n], 1, 7)[1]

\* m more digits, from the k-th down, of the quotient of st[3] by n, cut
\* off, onto st = <<digits, remainder, dividend>>, for an integer 0 < n < 2^14
RECURSIVE ShortDivision(_, _, _, _)
ShortDivision(st, n, k, m) ==
    IF st = <<>> \/ m = 0 THEN st
    ELSE IF m = 1
    THEN <<<<(st[2] * Digit + st[3][k]) \div n>> \o st[1],
           (st[2] * Digit + st[3][k]) % n, st[3]>>
    ELSE ShortDivision(ShortDivision(st, n, k, m \div 2), n, k - m \div 2, m - m \div 2)

\* sum + sign * term * (1 + s * t / j + (s * t)^2 / (j * (j + 1)) + ...) on
\* st = <<sum, term, j, sign>>, n terms at most: a term is added to the sum
\* and the next one is term * t / j; a term that is 0 leaves the sum, and the
\* terms after it are 0
RECURSIVE ExpSeries(_, _, _, _)
ExpSeries(st, t, s, n) ==
    IF st[2] = BigZero \/ n = 0 THEN st
    ELSE IF n = 1
    THEN <<IF st[4] < 0 THEN BigSub(st[1], st[2]) ELSE AddDigits(st[1], st[2]),
           ShortDivision(<<<<>>, 0, BigMul(st[2], t)>>, st[3], 7, 7)[1],
           st[3] + 1, st[4] * s>>
    ELSE ExpSeries(ExpSeries(st, t, s, n \div 2), t, s, n - n \div 2)

\* y^(2^n)
RECURSIVE Squarings(_, _)
Squarings(y, n) == IF n = 0 \/ y = BigZero THEN y ELSE Squarings(BigMul(y, y), n - 1)

\* the number of binary digits of a # 0
BigLen(a) ==
    LET top == CHOOSE k \in 1..7 : a[k] # 0 /\ \A j \in (k + 1)..7 : a[j] = 0
    IN  14 * (top - 1) + BitLen(a[top])

\* the double nearest to 2^k * y, y of len digits
BigRoundLen(y, k, len) ==
    RoundPack(1, len - 85 + k,
              Slice(y, len - 28) + Slice(y, len - 14) * Digit,
              Jam(Slice(y, len - 56) + Slice(y, len - 42) * Digit,
                  BigShift(BigShift(y, 56 - len), len - 56) # y))

\* the doubles within 1/2 + 1/16 of a unit in the last place of 2^k * y:
\* the doubles nearest to y less and to y plus 1/16 of a unit in the last
\* place, which is 2^(len - 57) for the len digits of y and the 53 of a
\* double
BigRounds(y, k) ==
    IF y = BigZero THEN {float64_zero}
    ELSE {BigRoundLen(z, k, BigLen(z)) :
             z \in {BigSub(y, BigShift(BigOne, BigLen(y) - 141)),
                    AddDigits(y, BigShift(BigOne, BigLen(y) - 141))}}

\* exp(s * r) = exp(s * r / 64)^64 for 0 <= r < 1 and the sign s; the terms
\* of the series of exp(r / 64) from the 14th on are below 2^-84
BigExp(r, s) ==
    IF r = BigZero THEN BigOne
    ELSE Squarings(ExpSeries(<<BigOne, BigShift(r, -6), 2, s>>, BigShift(r, -6), s, 14)[1],
                   6)

\* the values of exp(s * p) = 2^(s * n) * exp(s * r) with p = n * ln 2 + r
ExpReduced(s, p, n) == BigRounds(BigExp(BigSub(p, ScaleDigits(Ln2, n)), s), s * n)

\* the values of exp(s * p) for p < 1024 of 84 digits after the point;
\* 45427 / 2^16 is just above ln 2
ExpBig(s, p) ==
    IF p = BigZero THEN {float(1)}
    ELSE ExpReduced(s, p, (Slice(p, 68) + Slice(p, 82) * Digit) \div 45427)

\* the values of exp(s * |u|) of an unpacked double u; |u| is 0 below 2^-85
ExpUnpacked(s, u) ==
    ExpBig(s, IF u[2] < -85 THEN BigZero
              ELSE BigShift(Digits(u[3], u[4]) \o <<0, 0, 0, 0>>, u[2] + 32))

\* the values a build's exp(x) can have: exp(nan) = nan, exp(0) = 1,
\* exp(-inf) = 0, exp(inf) = inf
exp(x) ==
    IF IsNaN(x) THEN {nan}
    ELSE IF x = float64_zero THEN {float(1)}
    ELSE IF IsInf(x) \/ x[2] >= 10 THEN {IF x[1] < 0 THEN float64_zero ELSE inf(1)}
    ELSE ExpUnpacked(x[1], Unpack(x))

(***************************************************************************)
(* Inputs of the simulator                                                 *)
(***************************************************************************)
MaxLen == 3
MaxSpeed == 3
MaxReserve == 3
MaxTrials == 3

SeqsUpTo(S, n) == UNION {[1..k -> S] : k \in 0..n}

\* samples in whole m/s, series of a sample that no double holds exactly
\* (1.7 m/s) with whole ones, and a series with samples whose recovery
\* factor lies near the middle of two doubles (0.299 m/s at a threshold of
\* 1 m/s with tau = 2, 0.667 m/s with tau = 300)
SpeedVals == {float(k) : k \in 0..MaxSpeed}
MeasuredSeries ==
    {<<float64(<<17, 10>>), float64(<<17, 10>>), float64(<<17, 10>>)>>,
     <<float(3), float64(<<17, 10>>), float(1), float(0)>>,
     <<float(3), float64(<<299, 1000>>), float64(<<667, 1000>>), float(0)>>}
SpeedSeries == SeqsUpTo(SpeedVals, MaxLen) \cup MeasuredSeries
CsVals == {float(1), float(2)}
ReserveVals == {float(k) : k \in -1..MaxReserve}
TauVals == {float(0), float(1), float(2)}

\* the default of the parameter tau
DefaultTau == 300

\* the default of tau of the cycling protocol, in the specification only
CyclingDefaultTau == 546

\* power series of the cycling simulator: the series of full length
PowerSeries == {sd \in SpeedSeries : Len(sd) = MaxLen}

(***************************************************************************)
(* D' balance simulator                                                    *)
(* d_prime_balance is called as line 889 calls it: speed_data a numpy      *)
(* array of doubles, cs, d_prime and tau plain Python numbers.  A trace is *)
(* a sequence; element i of the Python array is element i + 1 here.        *)
(***************************************************************************)

\* faulty variant: np.zeros(n) in place of np.ones(n) * d_prime
np_zeros(n, d_prime) == [k \in 1..n |-> float64_zero]

\* np.ones(n) * d_prime
np_ones_times(n, d_prime) ==
    LET v == float64_mul(float(1), d_prime)
    IN  [k \in 1..n |-> v]

\* faulty variant: a sample below the threshold spends reserve as well
Expenditure_Abs(x, cs) ==
    IF float64_lt(float64_sub(x, cs), float64_zero)
    THEN float64_neg(float64_sub(x, cs))
    ELSE float64_sub(x, cs)

\* max(0, speed_data[i-1] - cs) and min(0, speed_data[i-1] - cs)
Expenditure(x, cs) == PyMax(float64_zero, float64_sub(x, cs))
Recovery(x, cs) == PyMin(float64_zero, float64_sub(x, cs))

\* faulty variant: the lower clamp max(0, .) is lost
Clamp_NoFloor(b, d_prime) == PyMin(d_prime, b)

\* min(d_prime, max(0, b)); max(0, nan) is 0
Clamp(b, d_prime) == PyMin(d_prime, PyMax(float64_zero, b))

\* faulty variant: the division is by recovery instead of by tau * cs
RaisesZeroDivision_ByRecovery(x, cs, tau) ==
    /\ ~float64_lt(float64_zero, PyMax(float64_zero, float64_sub(x, cs)))
    /\ PyMin(float64_zero, float64_sub(x, cs)) = float64_zero

\* recovery / (tau * cs) divides by zero.  min(0, x - cs) is the Python int 0
\* unless x - cs < 0, and int / float zero raises; a negative numpy float
\* divided by zero is -inf (a warning, no exception).
RaisesZeroDivision(x, cs, tau) ==
    /\ ~float64_lt(float64_zero, Expenditure(x, cs))
    /\ float64_mul(tau, cs) = float64_zero
    /\ Recovery(x, cs) = float64_zero

\* the arguments of np.exp in the calls with whole samples, and the values
\* of np.exp on them, computed once
ExpArguments ==
    {float64_div(Recovery(x, cs), float64_mul(tau, cs)) :
        x \in SpeedVals, cs \in CsVals, tau \in TauVals \cup {float(DefaultTau)}}
ExpTable == [x \in ExpArguments |-> exp(x)]

\* the values np.exp(x) can have, one of them in a given build
np_exp(x) == (IF x \in ExpArguments THEN ExpTable ELSE [y \in {x} |-> exp(y)])[x]

\* faulty variant: the factor applied to the deficit is 2, so that the
\* deficit grows while recovering
RecoveryFactor_Doubled(x, cs, tau) == {float(2)}

\* the values of np.exp(recovery / (tau * cs)); np.exp(-inf) = 0
RecoveryFactor(x, cs, tau) ==
    np_exp(float64_div(Recovery(x, cs), float64_mul(tau, cs)))

\* faulty variant: depletion is taken from d_prime instead of d_prime_balance[i-1]
Update_FromReserve(prev, d_prime, expenditure, factor) ==
    IF float64_lt(float64_zero, expenditure)
    THEN float64_sub(d_prime, expenditure)
    ELSE float64_sub(d_prime, float64_mul(float64_sub(d_prime, prev), factor))

BalanceStep_FromReserve(prev, x, cs, d_prime, factor) ==
    Clamp(Update_FromReserve(prev, d_prime, Expenditure(x, cs), factor), d_prime)

\* faulty variant: reconstitution forgets d_prime_balance[i-1]
Update_LostPrev(prev, d_prime, expenditure, factor) ==
    IF float64_lt(float64_zero, expenditure)
    THEN float64_sub(prev, expenditure)
    ELSE float64_sub(d_prime, float64_mul(d_prime, factor))

BalanceStep_LostPrev(prev, x, cs, d_prime, factor) ==
    Clamp(Update_LostPrev(prev, d_prime, Expenditure(x, cs), factor), d_prime)

\* d_prime_balance[i] before it is clamped: prev less the expenditure, or
\* d_prime less the deficit d_prime - prev times the recovery factor
Update(prev, d_prime, expenditure, factor) ==
    IF float64_lt(float64_zero, expenditure)
    THEN float64_sub(prev, expenditure)
    ELSE float64_sub(d_prime, float64_mul(float64_sub(d_prime, prev), factor))

\* one pass of the loop body: d_prime_balance[i] from d_prime_balance[i-1]
\* (prev) and speed_data[i-1] (x); factor is np.exp(recovery / (tau * cs)),
\* read in the recovery branch only
BalanceStep(prev, x, cs, d_prime, factor) ==
    Clamp(Update(prev, d_prime, Expenditure(x, cs), factor), d_prime)

\* what a pass computes from its sample alone: whether the division raises,
\* and the recovery factor otherwise, for each value np.exp can have
SamplePass(x, cs, tau) ==
    {[factor |-> f, raises |-> RaisesZeroDivision(x, cs, tau)] :
        f \in RecoveryFactor(x, cs, tau)}

\* the tables of a SamplePass for each sample of the series.  np.exp is a
\* function: within a call equal samples get the same factor, so a table
\* holds one pass for each sample that occurs, and there is one table for
\* each choice of them; passes holds <<x, SamplePass of x>> for each sample
\* x, computed once per call
SamplePasses(speed_data, cs, tau) ==
    UNION {{t \in [{p[1] : p \in passes} -> UNION {p[2] : p \in passes}] :
               \A p \in passes : t[p[1]] \in p[2]} :
              passes \in {{<<x, SamplePass(x, cs, tau)>> :
                              x \in {speed_data[k] : k \in 1..Len(speed_data)}}}}

\* faulty variant: step i reads the current sample speed_data[i]
Sample_Current(speed_data, i) == speed_data[i + 1]

\* speed_data[i-1], the sample read by step i (Python index i)
Sample(speed_data, i) == speed_data[i]

\* faulty variant: the trace shares the storage of the input series
Store_InPlace(mem, i, v) ==
    [mem EXCEPT !.d_prime_balance[i + 1] = v, !.speed_data[i + 1] = v]

\* d_prime_balance[i] = v; mem holds the caller's series and the array
\* allocated by np.ones
Store(mem, i, v) == [mem EXCEPT !.d_prime_balance[i + 1] = v]

\* the pass i on the sample x: it raises, or stores d_prime_balance[i]
StorePass(mem, i, x, cs, d_prime, pass) ==
    IF pass.raises
    THEN [mem EXCEPT !.exc = "ZeroDivisionError"]
    ELSE Store(mem, i, BalanceStep(mem.d_prime_balance[i], x, cs, d_prime, pass.factor))

\* the pass i of the loop on mem; what it computes from its sample alone is
\* looked up in the table passes, and computed for a sample the table does
\* not hold
BalancePass(mem, i, cs, d_prime, tau, passes) ==
    StorePass(mem, i, Sample(mem.speed_data, i), cs, d_prime,
              IF Sample(mem.speed_data, i) \in DOMAIN passes
              THEN passes[Sample(mem.speed_data, i)]
              ELSE CHOOSE p \in SamplePass(Sample(mem.speed_data, i), cs, tau) : TRUE)

\* the passes lo .. hi - 1 of for i in range(1, len(speed_data)), in order:
\* the first half of the range, then the second half on what the first left;
\* a pass that raises ends the loop
RECURSIVE BalancePasses(_, _, _, _, _, _, _)
BalancePasses(mem, lo, hi, cs, d_prime, tau, passes) ==
    IF mem.exc # "none" \/ lo >= hi THEN mem
    ELSE IF hi = lo + 1 THEN BalancePass(mem, lo, cs, d_prime, tau, passes)
    ELSE BalancePasses(BalancePasses(mem, lo, (lo + hi) \div 2, cs, d_prime, tau, passes),
                       (lo + hi) \div 2, hi, cs, d_prime, tau, passes)

\* what the call leaves: the returned trace, none when it raised, and the
\* caller's series
Outcome(end) ==
    [ret |-> IF end.exc = "none" THEN end.d_prime_balance ELSE <<>>,
     exc |-> end.exc,
     speed_data |-> end.speed_data]

\* for i in range(1, len(speed_data)), from Python index i on: the outcomes
\* of the loop, one for each table of the values of np.exp
BalanceLoop(mem, i, cs, d_prime, tau) ==
    {Outcome(BalancePasses([exc |-> "none",
                            speed_data |-> mem.speed_data,
                            d_prime_balance |-> mem.d_prime_balance],
                           i, Len(mem.speed_data), cs, d_prime, tau, passes)) :
        passes \in SamplePasses(mem.speed_data, cs, tau)}

\* faulty variant: the trace is returned without its first element
DropFirst(out) == [out EXCEPT !.ret = IF out.ret = <<>> THEN <<>> ELSE Tail(out.ret)]

d_prime_balance_DropFirst(speed_data, cs, d_prime, tau) ==
    {DropFirst(out) :
        out \in BalanceLoop([speed_data |-> speed_data,
                             d_prime_balance |-> np_ones_times(Len(speed_data), d_prime)],
                            1, cs, d_prime, tau)}

\* d_prime_balance(speed_data, cs, d_prime, tau): the array of np.ones times
\* d_prime, then the loop; the outcomes of the call, one of them in a given
\* build of numpy
d_prime_balance(speed_data, cs, d_prime, tau) ==
    BalanceLoop([speed_data |-> speed_data,
                 d_prime_balance |-> np_ones_times(Len(speed_data), d_prime)],
                1, cs, d_prime, tau)

\* faulty variant: the argument passed for tau is ignored
BindTau_IgnoresArgument(given, tau) == float(DefaultTau)

\* the value bound to the parameter tau=300 at a call
BindTau(given, tau) == IF given THEN tau ELSE float(DefaultTau)

(***************************************************************************)
(* Parameter estimators.  Each returns the pair <<cs, d_prime>>.           *)
(***************************************************************************)
Half == <<1, 2>>

\* faulty variant: the drop is multiplied by 120 s instead of 180 s
calculate_cs_from_3min_120(max_speed, end_speed) ==
    <<end_speed, RMul(RSub(max_speed, end_speed), R(120))>>

calculate_cs_from_3min(max_speed, end_speed) ==
    LET cs == end_speed
        d_prime == RMul(RSub(max_speed, end_speed), R(180))
    IN  <<cs, d_prime>>

\* faulty variant: the intercept is taken from the 5-minute distance
calculate_cs_from_3_5min_From5(distance_3min, distance_5min) ==
    LET cs == RDiv(RSub(distance_5min, distance_3min), R(120))
    IN  <<cs, RSub(distance_5min, RMul(cs, R(180)))>>

calculate_cs_from_3_5min(distance_3min, distance_5min) ==
    LET time_diff == R(120)
        cs == RDiv(RSub(distance_5min, distance_3min), time_diff)
        d_prime == RSub(distance_3min, RMul(cs, R(180)))
    IN  <<cs, d_prime>>

\* faulty variant: the minutes are not squared in d_prime
calculate_cs_from_ramp_NoSquare(final_speed, time_to_exhaustion, ramp_rate) ==
    LET m == RDiv(time_to_exhaustion, R(60))
    IN  <<RSub(final_speed, RMul(RMul(Half, ramp_rate), m)),
          RMul(RMul(Half, ramp_rate), m)>>

calculate_cs_from_ramp(final_speed, time_to_exhaustion, ramp_rate) ==
    LET cs == RSub(final_speed,
                   RDiv(RMul(RMul(Half, ramp_rate), time_to_exhaustion), R(60)))
        m == RDiv(time_to_exhaustion, R(60))
        d_prime == RMul(RMul(Half, ramp_rate), RMul(m, m))
    IN  <<cs, d_prime>>

(***************************************************************************)
(* scipy.optimize.curve_fit(f, xdata, ydata) for a model f(x, a, b) =      *)
(* a + b * g(x) that is linear in its two parameters; us is g(xdata).      *)
(* Levenberg-Marquardt started at p0 = (1, 1) ends at a minimiser of the   *)
(* sum of squared residuals.  When the regressors are not all equal the    *)
(* minimiser is unique: the solution of the normal equations.  When they   *)
(* are all equal the Jacobian has rank 1, every (a, b) with                *)
(* a + b * u = mean(ys) is a minimiser, and curve_fit returns one of them  *)
(* with a warning that the covariance could not be estimated.              *)
(***************************************************************************)
RECURSIVE RSum(_)
RSum(xs) == IF xs = <<>> THEN Zero ELSE RAdd(Head(xs), RSum(Tail(xs)))

RProd(xs, ys) == [k \in 1..Len(xs) |-> RMul(xs[k], ys[k])]

FitDet(us) ==
    RSub(RMul(R(Len(us)), RSum(RProd(us, us))), RMul(RSum(us), RSum(us)))

\* the unique least-squares <<a, b>> (FitDet(us) # 0)
LeastSquares(us, ys) ==
    LET n == R(Len(us))
        b == RDiv(RSub(RMul(n, RSum(RProd(us, ys))), RMul(RSum(us), RSum(ys))),
                  FitDet(us))
        a == RDiv(RSub(RSum(ys), RMul(b, RSum(us))), n)
    IN  <<a, b>>

\* minimisers the solver can stop at when every regressor equals u: the one
\* that keeps b = 1 of p0, the one that keeps a = 1 of p0, and the one on
\* the damped (scaled gradient) path from p0
RankDeficientFits(us, ys) ==
    LET u == us[1]
        ybar == RDiv(RSum(ys), R(Len(ys)))
        r0 == RSub(RAdd(One, u), ybar)
    IN  {<<RSub(ybar, u), One>>} \cup
        (IF u = Zero THEN {} ELSE
            { <<One, RDiv(RSub(ybar, One), u)>>,
              <<RSub(One, RMul(Half, r0)), RSub(One, RDiv(RMul(Half, r0), u))>> })

\* numpy broadcasting of a length-1 array against n elements
Broadcast(xs, n) == IF Len(xs) = n THEN xs ELSE [k \in 1..n |-> xs[1]]

\* outcomes of curve_fit(f, xdata, ydata): an exception, or popt = <<a, b>>.
\* Empty ydata is refused; the residual f(xdata) - ydata must broadcast;
\* fewer residuals than the 2 parameters are refused ("Improper input").
curve_fit(us, ys) ==
    IF Len(ys) = 0
    THEN {[ret |-> <<>>, exc |-> "ValueError", fitted |-> TRUE]}
    ELSE IF Len(us) # Len(ys) /\ Len(us) # 1 /\ Len(ys) # 1
    THEN {[ret |-> <<>>, exc |-> "ValueError", fitted |-> TRUE]}
    ELSE LET m == IF Len(us) > Len(ys) THEN Len(us)
                  ELSE IF Len(us) = 0 THEN 0 ELSE Len(ys)
             bu == Broadcast(us, m)
             by == Broadcast(ys, m)
         IN  IF m < 2
             THEN {[ret |-> <<>>, exc |-> "TypeError", fitted |-> TRUE]}
             ELSE IF FitDet(bu) # Zero
             THEN {[ret |-> LeastSquares(bu, by), exc |-> "none", fitted |-> TRUE]}
             ELSE {[ret |-> p, exc |-> "none", fitted |-> TRUE] :
                      p \in RankDeficientFits(bu, by)}

\* faulty variant: the fitted coefficients are returned in the order
\* (intercept, slope) instead of (cs, d_prime) = (slope, intercept)
calculate_cs_from_time_trials_Swapped(distances, times) ==
    curve_fit(times, distances)

\* faulty variant: a short input returns the sentinel of the sibling
\* estimator instead of reaching the fit
calculate_cs_from_time_trials_Sentinel(distances, times) ==
    IF Len(distances) < 2 \/ Len(times) < 2
    THEN {[ret |-> <<Zero, Zero>>, exc |-> "none", fitted |-> FALSE]}
    ELSE {[o EXCEPT !.ret = IF o.exc = "none" THEN <<o.ret[2], o.ret[1]>> ELSE <<>>] :
             o \in curve_fit(times, distances)}

\* outcomes of calculate_cs_from_time_trials(distances, times):
\* distance_model(t, cs, d_prime) = cs * t + d_prime, the regressor is t,
\* cs is the slope and d_prime the intercept
calculate_cs_from_time_trials(distances, times) ==
    {[o EXCEPT !.ret = IF o.exc = "none" THEN <<o.ret[2], o.ret[1]>> ELSE <<>>] :
        o \in curve_fit(times, distances)}

\* faulty variant: the hyperbolic model is fitted against t instead of 1/t
Reciprocals_Identity(times) == times

\* speed_time_model(t, cs, d_prime) = cs + d_prime / t: the regressor is 1/t
Reciprocals(times) == [k \in 1..Len(times) |-> RDiv(One, times[k])]

\* faulty variant: the guard tests "and" instead of "or"
calculate_cs_from_tte_And(speeds, times) ==
    IF Len(speeds) < 2 /\ Len(times) < 2
    THEN {[ret |-> <<Zero, Zero>>, exc |-> "none", fitted |-> FALSE]}
    ELSE {[ret |-> <<>>,
           exc |-> IF Len(speeds) # Len(times) THEN "ValueError" ELSE "TypeError", fitted |-> TRUE]}

\* outcomes of calculate_cs_from_tte(speeds, times)
calculate_cs_from_tte(speeds, times) ==
    IF Len(speeds) < 2 \/ Len(times) < 2
    THEN {[ret |-> <<Zero, Zero>>, exc |-> "none", fitted |-> FALSE]}
    ELSE curve_fit(Reciprocals(times), speeds)

(***************************************************************************)
(* Paces and race predictions.  int(x // 1) is taken of a double.  A       *)
(* double equals the rational it stands for when that rational is dyadic   *)
(* and was computed from exact operands; otherwise it is the double next   *)
(* to it, which floors as the rational does unless the rational is an      *)
(* integer n: the double can then lie just below n and floor to n - 1      *)
(* (1000 / (25/6) is 239.99999999999997).  An operation whose result the   *)
(* rounding decides has both outcomes.                                     *)
(***************************************************************************)
\* int(x // 1) of a rational
Floor(x) == x[1] \div x[2]

RECURSIVE PowerOfTwo(_)
PowerOfTwo(d) == d = 1 \/ (d % 2 = 0 /\ PowerOfTwo(d \div 2))

\* a rational that a double holds exactly
Dyadic(x) == PowerOfTwo(x[2])

\* what the floor of a double can lose against the floor of its rational:
\* 1 when the rational is whole and the double can lie just below it
Below(whole, exact) == IF exact \/ ~whole THEN {0} ELSE {0, 1}

\* <<quotient, remainder>> of a * b by c for a, b >= 0 and c > 0, one binary
\* digit of b at a time so that no intermediate value leaves 32 bits
RECURSIVE MulDivMod(_, _, _)
MulDivMod(a, b, c) ==
    IF b = 0 THEN <<0, 0>>
    ELSE LET h == MulDivMod(a, b \div 2, c)
             add == IF b % 2 = 1 THEN a % c ELSE 0
             carry == IF h[2] >= c - h[2] THEN 1 ELSE 0
             twice == IF carry = 1 THEN h[2] - (c - h[2]) ELSE 2 * h[2]
             over == IF twice >= c - add THEN 1 ELSE 0
         IN  <<2 * h[1] + carry + (IF b % 2 = 1 THEN a \div c ELSE 0) + over,
               IF over = 1 THEN twice - (c - add) ELSE twice + add>>

\* pace_seconds = 1000 / speed_mps, or 1609.34 / speed_mps per mile, for a
\* speed that is not 0: its floor, and whether it is a whole number
PaceSeconds(speed_mps, unit) ==
    LET metres == IF unit = "Miles" THEN <<80467, 50>> ELSE R(1000)
        qr == MulDivMod(metres[1], speed_mps[2], metres[2] * Abs(speed_mps[1]))
    IN  [whole |-> qr[2] = 0,
         floor |-> IF speed_mps[1] > 0 THEN qr[1]
                   ELSE IF qr[2] = 0 THEN -qr[1] ELSE -qr[1] - 1]

\* f"{minutes}:{seconds:02d}" with minutes = int(pace_seconds // 60) and
\* seconds = int(pace_seconds % 60), from the floor of pace_seconds: the pair
\* <<minutes, seconds>>
PaceText(floor_seconds) == <<floor_seconds \div 60, floor_seconds % 60>>

\* the texts format_pace can return for a speed that is not 0; exact tells
\* that the double speed_mps equals the rational (1609.34 is no double)
PaceTexts(speed_mps, unit, exact) ==
    LET pace_seconds == PaceSeconds(speed_mps, unit)
    IN  {PaceText(pace_seconds.floor - b) :
            b \in Below(pace_seconds.whole, exact /\ unit # "Miles")}

\* outcomes of format_pace(speed_mps, unit): the text <<minutes, seconds>>
\* per mile or per km, or the ZeroDivisionError of 1000 / 0
format_pace(speed_mps, unit) ==
    IF speed_mps = Zero
    THEN {[ret |-> <<>>, exc |-> "ZeroDivisionError"]}
    ELSE {[ret |-> t, exc |-> "none"] :
             t \in PaceTexts(speed_mps, unit, Dyadic(speed_mps))}

\* the paces dictionary of calculate_training_paces: zone, lower and upper
\* factor of cs
Zones ==
    << <<"Recovery", <<3, 5>>, <<7, 10>> >>,
       <<"Easy/Aerobic", <<7, 10>>, <<4, 5>> >>,
       <<"Moderate", <<4, 5>>, <<87, 100>> >>,
       <<"Threshold", <<87, 100>>, <<93, 100>> >>,
       <<"Critical Speed", <<93, 100>>, One >>,
       <<"Interval", One, <<11, 10>> >>,
       <<"Repetition", <<11, 10>>, <<6, 5>> >> >>

\* the texts one zone can show, <<lower_pace, upper_pace, per>>; only the
\* product 1.00 * cs is the double cs itself
ZoneTexts(k, cs, unit, exact) ==
    {<<lo, up, IF unit = "Miles" THEN "min/mile" ELSE "min/km">> :
        lo \in PaceTexts(RMul(Zones[k][2], cs), unit, exact /\ Zones[k][2] = One),
        up \in PaceTexts(RMul(Zones[k][3], cs), unit, exact /\ Zones[k][3] = One)}

\* the sequences of one choice per index 1..k from choices[1], .., choices[k]
RECURSIVE Choices(_, _)
Choices(choices, k) ==
    IF k = 0 THEN {<<>>}
    ELSE {Append(s, x) : s \in Choices(choices, k - 1), x \in choices[k]}

\* outcomes of calculate_training_paces(cs, unit) for a cs known as exact or
\* not: the texts by zone, in the order of the dictionary
TrainingPaces(cs, unit, exact) ==
    IF cs = Zero
    THEN {[ret |-> <<>>, exc |-> "ZeroDivisionError"]}
    ELSE {[ret |-> [k \in 1..Len(Zones) |-> <<Zones[k][1], texts[k]>>],
           exc |-> "none"] :
             texts \in Choices([k \in 1..Len(Zones) |-> ZoneTexts(k, cs, unit, exact)],
                               Len(Zones))}

calculate_training_paces(cs, unit) == TrainingPaces(cs, unit, Dyadic(cs))

\* the distances dictionary of predict_race_times, in metres
RaceOrder ==
    <<"800m", "1500m", "Mile", "3000m", "5K", "10K", "Half Marathon", "Marathon">>
RaceNames == {RaceOrder[k] : k \in 1..Len(RaceOrder)}
RaceDistance(race) ==
    CASE race = "800m" -> R(800)
      [] race = "1500m" -> R(1500)
      [] race = "Mile" -> <<80467, 50>>
      [] race = "3000m" -> R(3000)
      [] race = "5K" -> R(5000)
      [] race = "10K" -> R(10000)
      [] race = "Half Marathon" -> <<42195, 2>>
      [] race = "Marathon" -> R(42195)

\* time_seconds = dist / cs - d_prime / (cs * cs)
time_seconds(dist, cs, d_prime) ==
    RSub(RDiv(dist, cs), RDiv(d_prime, RMul(cs, cs)))

\* the texts predictions[race] can be: <<hours, minutes, seconds, pace,
\* per>>, or <<"N/A">> when the time is not positive.  The double
\* time_seconds is exact when cs and d_prime are, the distance is not the
\* literal 1609.34 and both quotients are dyadic.
PredictionTexts(race, cs, d_prime, unit, exact) ==
    LET dist == RaceDistance(race)
        t == time_seconds(dist, cs, d_prime)
        exact_t == /\ exact
                   /\ race # "Mile"
                   /\ Dyadic(RDiv(dist, cs))
                   /\ Dyadic(RDiv(d_prime, RMul(cs, cs)))
        perMile == unit = "Miles" /\ race \in {"5K", "10K", "Half Marathon", "Marathon"}
        per == IF perMile THEN "/mi" ELSE "/km"
        whole == Floor(t)
    IN  IF t = Zero /\ ~exact_t
        THEN {<<"N/A">>, <<0, 0, 0, <<0, 0>>, per>>}
        ELSE IF ~RLt(Zero, t)
        THEN {<<"N/A">>}
        ELSE {<<(whole - b) \div 3600, ((whole - b) % 3600) \div 60,
                (whole - b) % 60, pace, per>> :
                 b \in Below(t[2] = 1, exact_t),
                 pace \in PaceTexts(RDiv(dist, t),
                                    IF perMile THEN "Miles" ELSE "Kilometers",
                                    exact_t /\ Dyadic(RDiv(dist, t)))}

\* outcomes of predict_race_times(cs, d_prime, unit) for cs and d_prime
\* known as exact or not: for each race the computed time_seconds and the
\* text shown, or the ZeroDivisionError of dist / 0
RacePredictions(cs, d_prime, unit, exact) ==
    IF cs = Zero
    THEN {[ret |-> <<>>, exc |-> "ZeroDivisionError"]}
    ELSE {[ret |-> [race \in RaceNames |->
                      [time_seconds |-> time_seconds(RaceDistance(race), cs, d_prime),
                       text |-> texts[CHOOSE k \in 1..Len(RaceOrder) :
                                          RaceOrder[k] = race]]],
           exc |-> "none"] :
             texts \in Choices([k \in 1..Len(RaceOrder) |->
                                   PredictionTexts(RaceOrder[k], cs, d_prime, unit, exact)],
                               Len(RaceOrder))}

predict_race_times(cs, d_prime, unit) ==
    RacePredictions(cs, d_prime, unit, Dyadic(cs) /\ Dyadic(d_prime))

(***************************************************************************)
(* Inputs of the estimators and of the page                                *)
(***************************************************************************)
TestSpeeds == {R(3), R(4), <<9, 2>>, R(5), R(6)}
TestDistances == {R(700), R(800), R(1250), R(1300)}
RampTimes == {R(300), R(600), R(630)}
RampRates == {<<1, 10>>, <<1, 5>>, <<1, 2>>}
TteSpeeds == {<<9, 2>>, R(5), R(6)}
TteTimes == {R(1), R(2), R(4)}
TrialDistances == {R(8), R(11), R(17)}
TrialTimes == {R(2), R(3), R(5)}
PredCs == {R(0), R(1), R(4), R(5)}
PredReserves == {R(0), R(200), R(50000)}
Units == {"Meters", "Kilometers", "Miles"}

\* what the user enters on the page
PageMaxSpeeds == {R(5)}
PageEndSpeeds == {R(4)}
\* two trials the fit passes through; a trial timed 0:00; the defaults of
\* the page, three trials of 400 m in 3:00, 5:00 and 10:00
PageTrials ==
    {[distances |-> <<R(828), R(1368)>>, times |-> <<R(180), R(300)>>,
      unit |-> "Meters"],
     [distances |-> <<<<207, 250>>, <<171, 125>>>>, times |-> <<R(180), R(300)>>,
      unit |-> "Kilometers"],
     [distances |-> <<R(18), R(1368)>>, times |-> <<R(0), R(300)>>,
      unit |-> "Meters"],
     [distances |-> <<R(400), R(400), R(400)>>, times |-> <<R(180), R(300), R(600)>>,
      unit |-> "Meters"]}
PageDistances ==
    {[distance_3min |-> R(900), distance_5min |-> R(1380), unit |-> "Meters"],
     [distance_3min |-> Half, distance_5min |-> Half, unit |-> "Miles"]}
PageRamps ==
    {[time_to_exhaustion |-> R(720), starting_speed_kmh |-> <<54, 5>>,
      ramp_rate_kmh |-> <<9, 10>>]}
PageTtes ==
    {[times |-> <<R(180), R(360)>>, speeds_kmh |-> <<<<414, 25>>, <<819, 50>>>>]}
Durations == {6}
Intensities == {95, 110}
IntervalDurations == {5}
IntervalSettings ==
    {[work_intensity |-> 120, rest_intensity |-> 70,
      interval_length |-> 120, rest_length |-> 60],
     [work_intensity |-> 150, rest_intensity |-> 50,
      interval_length |-> 30, rest_length |-> 30]}
VariableDurations == {5}
BaseIntensities == {85}
VariationLevels == {float64(<<1, 5>>), float(1), float(-1)}
RaceDurations == {5, 8, 9}
ManualCs == {float(4), float(5)}
ManualReserves == {float(250)}

(***************************************************************************)
(* State machine.  Streamlit runs the script from the top on every         *)
(* interaction: a run defines the functions, makes its call and ends; the  *)
(* results are locals of that run and are gone when the next run starts.   *)
(***************************************************************************)
Init ==
    /\ fn = "none"
    /\ args = <<>>
    /\ ret = <<>>
    /\ exc = "none"
    /\ fitted = FALSE
    /\ series = <<>>
    /\ session = [sim_cs |-> float(4), sim_dprime |-> float(250),
                  simulate_enabled |-> FALSE, estimate |-> <<>>,
                  rendered |-> TRUE, results |-> <<>>]

\* a call of the simulator that passes tau
Call_d_prime_balance ==
    /\ fn = "none"
    /\ UNCHANGED session
    /\ \E sd \in SpeedSeries, c \in CsVals, d \in ReserveVals, t \in TauVals :
        \E out \in d_prime_balance(sd, c, d, BindTau(TRUE, t)) :
            /\ fn' = "d_prime_balance"
            /\ args' = [d_prime |-> d, cs |-> c, tau |-> BindTau(TRUE, t),
                        speed_data |-> sd, tau_given |-> TRUE,
                        tau_passed |-> t]
            /\ ret' = out.ret
            /\ exc' = out.exc
            /\ fitted' = FALSE
            /\ series' = out.speed_data

\* a call of the simulator that leaves tau to its default, as the page does
Call_d_prime_balance_default ==
    /\ fn = "none"
    /\ UNCHANGED session
    /\ \E sd \in SpeedSeries, c \in CsVals, d \in ReserveVals :
        \E out \in d_prime_balance(sd, c, d, BindTau(FALSE, float64_zero)) :
            /\ fn' = "d_prime_balance"
            /\ ret' = out.ret
            /\ exc' = out.exc
            /\ fitted' = FALSE
            /\ series' = out.speed_data
            /\ args' = [d_prime |-> d, cs |-> c, tau |-> BindTau(FALSE, float64_zero),
                        speed_data |-> sd, tau_given |-> FALSE]

\* a call of the cycling simulator of the specification that leaves tau to
\* its default: the same recurrence on a power series, with the default of
\* the cycling protocol.  The source holds the running simulator only.
Call_Simulator_cycling_default ==
    /\ fn = "none"
    /\ UNCHANGED session
    /\ \E sd \in PowerSeries, c \in CsVals, d \in ReserveVals :
        \E out \in d_prime_balance(sd, c, d, float(CyclingDefaultTau)) :
            /\ fn' = "Simulator_cycling"
            /\ ret' = out.ret
            /\ exc' = out.exc
            /\ fitted' = FALSE
            /\ series' = out.speed_data
            /\ args' = [d_prime |-> d, cs |-> c, tau |-> float(CyclingDefaultTau),
                        speed_data |-> sd, tau_given |-> FALSE]

Call_calculate_cs_from_3min ==
    /\ fn = "none"
    /\ UNCHANGED session
    /\ series' = <<>>
    /\ \E mx \in TestSpeeds, en \in TestSpeeds :
        /\ fn' = "calculate_cs_from_3min"
        /\ args' = [max_speed |-> mx, end_speed |-> en]
        /\ ret' = calculate_cs_from_3min(mx, en)
        /\ exc' = "none"
        /\ fitted' = FALSE

Call_calculate_cs_from_3_5min ==
    /\ fn = "none"
    /\ UNCHANGED session
    /\ series' = <<>>
    /\ \E d3 \in TestDistances, d5 \in TestDistances :
        /\ fn' = "calculate_cs_from_3_5min"
        /\ args' = [distance_3min |-> d3, distance_5min |-> d5]
        /\ ret' = calculate_cs_from_3_5min(d3, d5)
        /\ exc' = "none"
        /\ fitted' = FALSE

Call_calculate_cs_from_ramp ==
    /\ fn = "none"
    /\ UNCHANGED session
    /\ series' = <<>>
    /\ \E fs \in TestSpeeds, tte \in RampTimes, rr \in RampRates :
        /\ fn' = "calculate_cs_from_ramp"
        /\ args' = [final_speed |-> fs, time_to_exhaustion |-> tte,
                    ramp_rate |-> rr]
        /\ ret' = calculate_cs_from_ramp(fs, tte, rr)
        /\ exc' = "none"
        /\ fitted' = FALSE

Call_calculate_cs_from_tte ==
    /\ fn = "none"
    /\ UNCHANGED session
    /\ series' = <<>>
    /\ \E sp \in SeqsUpTo(TteSpeeds, MaxTrials), tm \in SeqsUpTo(TteTimes, MaxTrials) :
        \E out \in calculate_cs_from_tte(sp, tm) :
            /\ fn' = "calculate_cs_from_tte"
            /\ args' = [times |-> tm, speeds |-> sp]
            /\ ret' = out.ret
            /\ exc' = out.exc
            /\ fitted' = out.fitted

Call_calculate_cs_from_time_trials ==
    /\ fn = "none"
    /\ UNCHANGED session
    /\ series' = <<>>
    /\ \E ds \in SeqsUpTo(TrialDistances, MaxTrials), tm \in SeqsUpTo(TrialTimes, MaxTrials) :
        \E out \in calculate_cs_from_time_trials(ds, tm) :
            /\ fn' = "calculate_cs_from_time_trials"
            /\ args' = [distances |-> ds, times |-> tm]
            /\ ret' = out.ret
            /\ exc' = out.exc
            /\ fitted' = out.fitted

Call_predict_race_times ==
    /\ fn = "none"
    /\ UNCHANGED session
    /\ series' = <<>>
    /\ \E cs \in PredCs, d_prime \in PredReserves, unit \in Units :
      \E out \in predict_race_times(cs, d_prime, unit) :
        /\ fn' = "predict_race_times"
        /\ args' = [d_prime |-> d_prime, cs |-> cs, unit |-> unit]
        /\ ret' = out.ret
        /\ exc' = out.exc
        /\ fitted' = FALSE

\* the run ends; the next interaction starts the script again
Rerun ==
    /\ fn # "none"
    /\ UNCHANGED session
    /\ fn' = "none"
    /\ args' = <<>>
    /\ ret' = <<>>
    /\ exc' = "none"
    /\ fitted' = FALSE
    /\ series' = <<>>

Next ==
    \/ Call_d_prime_balance
    \/ Call_d_prime_balance_default
    \/ Call_Simulator_cycling_default
    \/ Call_calculate_cs_from_3min
    \/ Call_calculate_cs_from_3_5min
    \/ Call_calculate_cs_from_ramp
    \/ Call_calculate_cs_from_tte
    \/ Call_calculate_cs_from_time_trials
    \/ Call_predict_race_times
    \/ Rerun

Spec == Init /\ [][Next]_vars

(***************************************************************************)
(* The page.  Every interaction of the user runs the whole script once; a  *)
(* button is True only in the run its press started, the names a run       *)
(* assigns are gone in the next run, and the state of a widget a run does   *)
(* not display is discarded.  A run that raises ends where it raises: what *)
(* comes after on the page is not displayed.                               *)
(* The sidebar, the inputs of the tests, the duration slider, the profile  *)
(* selectbox and the sliders of the profile are read by the run that uses  *)
(* them: their values are inputs of that run.                              *)
(***************************************************************************)
\* the time axis holds duration*60 samples, one per second
SamplesPerMinute == 60

\* Python's min over xs[lo..hi] once best is the least so far: an element
\* replaces best when it is smaller, the first half of the range before the
\* second; nothing is smaller than nan
RECURSIVE RangeMin(_, _, _, _)
RangeMin(best, xs, lo, hi) ==
    IF lo > hi \/ IsNaN(best) THEN best
    ELSE IF lo = hi THEN PyMin(best, xs[lo])
    ELSE RangeMin(RangeMin(best, xs, lo, (lo + hi) \div 2), xs, (lo + hi) \div 2 + 1, hi)

\* res += xs[k] for k = lo, lo + step, .. up to hi: the first half of them,
\* then the others; nan stays nan
RECURSIVE AddUp(_, _, _, _, _)
AddUp(res, xs, lo, hi, step) ==
    IF lo > hi \/ IsNaN(res) THEN res
    ELSE IF lo + step > hi THEN float64_add(res, xs[lo])
    ELSE AddUp(AddUp(res, xs, lo, lo + step * ((hi - lo) \div (2 * step)), step),
               xs, lo + step * ((hi - lo) \div (2 * step)) + step, hi, step)

\* ((r[0] + r[1]) + (r[2] + r[3])) + ((r[4] + r[5]) + (r[6] + r[7]))
SumOfEight(r) ==
    float64_add(float64_add(float64_add(r[1], r[2]), float64_add(r[3], r[4])),
                float64_add(float64_add(r[5], r[6]), float64_add(r[7], r[8])))

\* numpy's pairwise summation of the n elements of xs after the first lo, the
\* order np.add.reduce adds a contiguous array in: fewer than 8 elements
\* one after the other; up to 128 in eight sums of every eighth element,
\* added in pairs, and then the elements left over; longer arrays by halves
RECURSIVE pairwise_sum(_, _, _)
pairwise_sum(xs, lo, n) ==
    IF n < 8 THEN AddUp(float64_zero, xs, lo + 1, lo + n, 1)
    ELSE IF n <= 128
    THEN AddUp(SumOfEight([j \in 1..8 |->
                              AddUp(xs[lo + j], xs, lo + j + 8, lo + n - (n % 8), 8)]),
               xs, lo + n - (n % 8) + 1, lo + n, 1)
    ELSE LET n2 == n \div 2 - ((n \div 2) % 8)
         IN  float64_add(pairwise_sum(xs, lo, n2), pairwise_sum(xs, lo + n2, n - n2))

\* np.mean(speed_data) of a series that is not empty
np_mean(speed_data) ==
    float64_div(pairwise_sum(speed_data, 0, Len(speed_data)), float(Len(speed_data)))

\* min(d_balance) of the Simulation Summary, for a trace that is not empty
min_balance(d_balance) == RangeMin(d_balance[1], d_balance, 2, Len(d_balance))

\* sim_dprime - min(d_balance) of the Simulation Summary
d_prime_expended(sim_dprime, d_balance) ==
    float64_sub(sim_dprime, min_balance(d_balance))

\* what the Simulation Summary shows; format_pace(np.mean(speed_data),
\* "Kilometers") divides 1000 by a numpy double and splits the floor of the
\* quotient into minutes and seconds
SimulationSummary(speed_data, sim_dprime, d_balance) ==
    [min_balance |-> min_balance(d_balance),
     d_prime_expended |-> d_prime_expended(sim_dprime, d_balance),
     avg_pace_km |-> PaceText(float64_floor(float64_div(float(1000), np_mean(speed_data))))]

\* np.ones_like(time_axis) * sim_cs * (intensity/100)
SteadyPace(duration, sim_cs, intensity) ==
    LET v == float64_mul(float64_mul(float(1), sim_cs),
                         float64_div(float(intensity), float(100)))
    IN  [k \in 1..(duration * SamplesPerMinute) |-> v]

\* the Intervals profile: sample i works while i % (interval_length +
\* rest_length) < interval_length and rests otherwise
Intervals(duration, sim_cs, work_intensity, rest_intensity, interval_length, rest_length) ==
    LET work == float64_mul(sim_cs, float64_div(float(work_intensity), float(100)))
        rest == float64_mul(sim_cs, float64_div(float(rest_intensity), float(100)))
    IN  [k \in 1..(duration * SamplesPerMinute) |->
            LET cycle_position == (k - 1) % (interval_length + rest_length)
            IN  IF cycle_position < interval_length THEN work ELSE rest]

\* np.clip(x, lo, hi)
np_clip(x, lo, hi) == PyMin(hi, PyMax(lo, x))

\* the Variable Pace profile once its random numbers are drawn and smoothed:
\* ((base_intensity/100) + smoothed_variations) * sim_cs, clipped to
\* [0.5 * sim_cs, 1.5 * sim_cs]; the value of a sample is computed once for
\* each variation that occurs
VariablePace(sim_cs, base_intensity, smoothed_variations) ==
    LET speed == {<<v, np_clip(float64_mul(float64_add(float64_div(float(base_intensity),
                                                                   float(100)), v),
                                           sim_cs),
                               float64_mul(float64(<<1, 2>>), sim_cs),
                               float64_mul(float64(<<3, 2>>), sim_cs))>> :
                     v \in {smoothed_variations[k] : k \in 1..Len(smoothed_variations)}}
    IN  [k \in 1..Len(smoothed_variations) |->
            (CHOOSE p \in speed : p[1] = smoothed_variations[k])[2]]

\* np.random.randint(low, high) raises ValueError when low >= high
RandintRaises(low, high) == low >= high

\* the values np.random.randint(low, high) can return
Randint(low, high) == low..(high - 1)

\* speed_data[start:start+length] = v, a slice that numpy clips to the array
SetSlice(speed_data, start, length, v) ==
    [k \in 1..Len(speed_data) |->
        IF k - 1 >= start /\ k - 1 < start + length THEN v ELSE speed_data[k]]

\* the surges of the Race Simulation, applied in the order they are drawn;
\* a draw is <<surge_start, surge_duration, surge_intensity>>
RECURSIVE ApplySurges(_, _, _)
ApplySurges(speed_data, surges, sim_cs) ==
    IF surges = <<>> THEN speed_data
    ELSE ApplySurges(SetSlice(speed_data, Head(surges)[1], Head(surges)[2],
                              float64_mul(sim_cs, Head(surges)[3])),
                     Tail(surges), sim_cs)

\* the Race Simulation profile once its random numbers are drawn: a base at
\* 90 % of CS, the surges, and the final kick at 130 % of CS from
\* kick_start = duration*60 - kick_offset on
RaceSimulation(duration, sim_cs, surges, kick_offset, kick_duration) ==
    LET n == duration * SamplesPerMinute
        v == float64_mul(float64_mul(float(1), float64(<<9, 10>>)), sim_cs)
        base == [k \in 1..n |-> v]
    IN  SetSlice(ApplySurges(base, surges, sim_cs),
                 n - kick_offset, kick_duration, float64_mul(sim_cs, float64(<<13, 10>>)))

\* the script reaches the simulator section, finds no cs and d_prime and
\* displays the two number inputs
ShowInputs(results) ==
    [session EXCEPT !.simulate_enabled = FALSE, !.rendered = TRUE,
                    !.results = results]

\* a run started by a widget that is neither a button nor one of the two
\* number inputs (the sidebar, an input of a test, the duration slider, the
\* profile selectbox, a slider of the profile): no button is True
Interact ==
    /\ session' = ShowInputs(<<>>)
    /\ fn' = "none"
    /\ args' = <<>>
    /\ ret' = <<>>
    /\ exc' = "none"
    /\ fitted' = FALSE
    /\ series' = <<>>

\* the run started by editing one of the two number inputs, which are on
\* the page when the latest run reached the simulator section and found no
\* cs and d_prime
Edit_Inputs ==
    /\ session.rendered
    /\ ~session.simulate_enabled
    /\ \E c \in ManualCs, d \in ManualReserves :
        /\ session' = [ShowInputs(<<>>) EXCEPT !.sim_cs = c, !.sim_dprime = d]
        /\ fn' = "none"
        /\ args' = <<>>
        /\ ret' = <<>>
        /\ exc' = "none"
        /\ fitted' = FALSE
        /\ series' = <<>>

\* the runs started by pressing Calculate, once the estimator name has
\* been called with arguments and had the outcome out; exact tells that the
\* doubles cs and d_prime equal their rationals.  The results box calls
\* format_pace(cs, .) twice, calculate_training_paces and
\* predict_race_times.  1000 / cs of a cs that is 0 ends the run before the
\* simulator section: a Python float raises ZeroDivisionError; a fitted cs
\* is a numpy.float64, its quotient is inf and int(inf // 60), the int of a
\* nan, raises ValueError.  After the results the time trials fill the table
\* trial_data with distances[i] / times[i], which raises for a trial timed
\* 0:00: the results are on the page and the simulator section is not.
\* Otherwise cs and d_prime are there when the simulator section looks for
\* them: it displays the calculated values instead of the two number
\* inputs, and Run Simulation is False in this run.
Calculate(name, arguments, out, unit, exact) ==
    LET NoSimulator(estimate, results) ==
            [sim_cs |-> float(4), sim_dprime |-> float(250), simulate_enabled |-> FALSE,
             estimate |-> estimate, rendered |-> FALSE, results |-> results]
        Results(km, mi, paces, predictions) ==
            [predictions |-> predictions.ret,
             critical_pace |-> <<km, mi>>,
             training_paces |-> paces.ret]
        trial_data_raises ==
            /\ name = "calculate_cs_from_time_trials"
            /\ \E i \in 1..Len(arguments.times) : arguments.times[i] = Zero
    IN  IF out.exc # "none"
        THEN {[fn |-> name, args |-> arguments, ret |-> <<>>, exc |-> out.exc,
               fitted |-> out.fitted, session |-> NoSimulator(session.estimate, <<>>)]}
        ELSE IF out.ret[1] = Zero
        THEN {[fn |-> "format_pace",
               args |-> [speed_mps |-> out.ret[1], unit |-> "Kilometers"],
               ret |-> <<>>,
               exc |-> IF out.fitted THEN "ValueError" ELSE "ZeroDivisionError",
               fitted |-> out.fitted, session |-> NoSimulator(out.ret, <<>>)]}
        ELSE {IF trial_data_raises
              THEN [fn |-> "trial_data", args |-> arguments, ret |-> <<>>,
                    exc |-> "ZeroDivisionError", fitted |-> out.fitted,
                    session |-> NoSimulator(out.ret, Results(km, mi, paces, predictions))]
              ELSE [fn |-> name, args |-> arguments, ret |-> out.ret, exc |-> "none",
                    fitted |-> out.fitted,
                    session |-> [sim_cs |-> float(4), sim_dprime |-> float(250),
                                 simulate_enabled |-> TRUE, estimate |-> out.ret,
                                 rendered |-> TRUE,
                                 results |-> Results(km, mi, paces, predictions)]] :
                 km \in PaceTexts(out.ret[1], "Kilometers", exact),
                 mi \in PaceTexts(out.ret[1], "Miles", exact),
                 paces \in TrainingPaces(out.ret[1], unit, exact),
                 predictions \in RacePredictions(out.ret[1], out.ret[2], unit, exact)}

\* convert_to_meters(distance, unit)
convert_to_meters(distance, unit) ==
    IF unit = "Kilometers" THEN RMul(distance, R(1000))
    ELSE IF unit = "Miles" THEN RMul(distance, <<80467, 50>>)
    ELSE distance

\* Calculate of the 3-minute all-out test (speeds entered directly)
Press_Calculate_3min ==
    \E max_speed \in PageMaxSpeeds, end_speed \in PageEndSpeeds, unit \in Units :
        \E run \in Calculate("calculate_cs_from_3min",
                  [max_speed |-> max_speed, end_speed |-> end_speed],
                  [ret |-> calculate_cs_from_3min(max_speed, end_speed), exc |-> "none",
                   fitted |-> FALSE],
                  unit, Dyadic(max_speed) /\ Dyadic(end_speed)) :
            /\ fn' = run.fn
            /\ args' = run.args
            /\ ret' = run.ret
            /\ exc' = run.exc
            /\ fitted' = run.fitted
            /\ series' = <<>>
            /\ session' = run.session

\* Calculate of the time trials method: one distance and one time per trial
Press_Calculate_time_trials ==
    \E entry \in PageTrials :
      \E out \in calculate_cs_from_time_trials(
                    [k \in 1..Len(entry.distances) |->
                        convert_to_meters(entry.distances[k], entry.unit)],
                    entry.times) :
        \E run \in Calculate("calculate_cs_from_time_trials",
                  [distances |-> [k \in 1..Len(entry.distances) |->
                                     convert_to_meters(entry.distances[k], entry.unit)],
                   times |-> entry.times],
                  out, entry.unit, FALSE) :
            /\ fn' = run.fn
            /\ args' = run.args
            /\ ret' = run.ret
            /\ exc' = run.exc
            /\ fitted' = run.fitted
            /\ series' = <<>>
            /\ session' = run.session

\* Calculate of the 3/5-minute test
Press_Calculate_3_5min ==
    \E entry \in PageDistances :
        LET distance_3min == convert_to_meters(entry.distance_3min, entry.unit)
            distance_5min == convert_to_meters(entry.distance_5min, entry.unit)
        IN  \E run \in Calculate("calculate_cs_from_3_5min",
                      [distance_3min |-> distance_3min, distance_5min |-> distance_5min],
                      [ret |-> calculate_cs_from_3_5min(distance_3min, distance_5min),
                       exc |-> "none",
                       fitted |-> FALSE],
                      entry.unit,
                      entry.unit = "Meters" /\ Dyadic(distance_3min)
                          /\ Dyadic(distance_5min)
                          /\ Dyadic(calculate_cs_from_3_5min(distance_3min,
                                                             distance_5min)[1])) :
            /\ fn' = run.fn
            /\ args' = run.args
            /\ ret' = run.ret
            /\ exc' = run.exc
            /\ fitted' = run.fitted
            /\ series' = <<>>
            /\ session' = run.session

\* Calculate of the ramp test: the speeds are entered in km/h
Press_Calculate_ramp ==
    \E entry \in PageRamps, unit \in Units :
        LET starting_speed == RDiv(entry.starting_speed_kmh, <<18, 5>>)
            ramp_rate == RDiv(entry.ramp_rate_kmh, <<18, 5>>)
            final_speed == RAdd(starting_speed,
                                RDiv(RMul(ramp_rate, entry.time_to_exhaustion), R(60)))
        IN  \E run \in Calculate("calculate_cs_from_ramp",
                      [final_speed |-> final_speed,
                       time_to_exhaustion |-> entry.time_to_exhaustion,
                       ramp_rate |-> ramp_rate],
                      [ret |-> calculate_cs_from_ramp(final_speed,
                                                      entry.time_to_exhaustion, ramp_rate),
                       exc |-> "none",
                       fitted |-> FALSE],
                      unit, FALSE) :
            /\ fn' = run.fn
            /\ args' = run.args
            /\ ret' = run.ret
            /\ exc' = run.exc
            /\ fitted' = run.fitted
            /\ series' = <<>>
            /\ session' = run.session

\* Calculate of the time to exhaustion test: the speeds are entered in km/h
Press_Calculate_tte ==
    \E entry \in PageTtes, unit \in Units :
        LET speeds == [k \in 1..Len(entry.speeds_kmh) |->
                          RDiv(entry.speeds_kmh[k], <<18, 5>>)]
        IN  \E out \in calculate_cs_from_tte(speeds, entry.times) :
                \E run \in Calculate("calculate_cs_from_tte",
                          [times |-> entry.times, speeds |-> speeds],
                          out, unit, FALSE) :
            /\ fn' = run.fn
            /\ args' = run.args
            /\ ret' = run.ret
            /\ exc' = run.exc
            /\ fitted' = run.fitted
            /\ series' = <<>>
            /\ session' = run.session

\* the run started by pressing Run Simulation, once the profile has
\* generated speed_data: no Calculate button is True, so cs and d_prime are
\* not assigned in this run and sim_cs and sim_dprime are read from the
\* number inputs; settings are the values read from the widgets of the
\* profile
SimulationRun(speed_data, settings, out) ==
    [args |-> [d_prime |-> session.sim_dprime, cs |-> session.sim_cs,
               tau |-> BindTau(FALSE, float64_zero),
               speed_data |-> speed_data, tau_given |-> FALSE,
               duration |-> settings.duration,
               settings |-> settings,
               profile_type |-> settings.profile_type],
     ret |-> out.ret, exc |-> out.exc, series |-> out.speed_data,
     session |-> ShowInputs(SimulationSummary(speed_data, session.sim_dprime, out.ret))]

\* d_balance = d_prime_balance(speed_data, sim_cs, sim_dprime) and what is
\* displayed of it, for each outcome of the call
Simulate(speed_data, settings) ==
    {SimulationRun(speed_data, settings, out) :
        out \in d_prime_balance(speed_data, session.sim_cs, session.sim_dprime,
                                BindTau(FALSE, float64_zero))}

\* Run Simulation with the Steady Pace profile
Press_RunSimulation ==
    /\ session.rendered
    /\ \E duration \in Durations, intensity \in Intensities :
        \E run \in Simulate(SteadyPace(duration, session.sim_cs, intensity),
                            [duration |-> duration, intensity |-> intensity,
                             profile_type |-> "Steady Pace"]) :
            /\ fn' = "d_prime_balance"
            /\ args' = run.args
            /\ ret' = run.ret
            /\ exc' = run.exc
            /\ fitted' = FALSE
            /\ series' = run.series
            /\ session' = run.session

\* Run Simulation with the Intervals profile
Press_RunSimulation_Intervals ==
    /\ session.rendered
    /\ \E duration \in IntervalDurations, s \in IntervalSettings :
        \E run \in Simulate(Intervals(duration, session.sim_cs, s.work_intensity,
                                      s.rest_intensity, s.interval_length, s.rest_length),
                            [work_intensity |-> s.work_intensity, rest_intensity |-> s.rest_intensity,
                             interval_length |-> s.interval_length,
                             rest_length |-> s.rest_length,
                             duration |-> duration,
                             profile_type |-> "Intervals"]) :
            /\ fn' = "d_prime_balance"
            /\ args' = run.args
            /\ ret' = run.ret
            /\ exc' = run.exc
            /\ fitted' = FALSE
            /\ series' = run.series
            /\ session' = run.session

\* smoothed_variations of n random numbers that all equal level: the
\* smoothing, a weighted mean of neighbours, leaves them as they are
Variations(n, level) == [k \in 1..n |-> level]

\* Run Simulation with the Variable Pace profile
Press_RunSimulation_Variable ==
    /\ session.rendered
    /\ \E duration \in VariableDurations, base_intensity \in BaseIntensities,
          level \in VariationLevels :
        \E run \in Simulate(VariablePace(session.sim_cs, base_intensity,
                                         Variations(duration * SamplesPerMinute, level)),
                            [duration |-> duration,
                             base_intensity |-> base_intensity,
                             profile_type |-> "Variable Pace"]) :
            /\ fn' = "d_prime_balance"
            /\ args' = run.args
            /\ ret' = run.ret
            /\ exc' = run.exc
            /\ fitted' = FALSE
            /\ series' = run.series
            /\ session' = run.session

\* the smallest and the largest element of a set of integers that is not
\* empty
Lowest(S) == CHOOSE x \in S : \A y \in S : x <= y
Highest(S) == CHOOSE x \in S : \A y \in S : x >= y

\* draws of the Race Simulation for a duration whose surge range is not
\* empty: three short surges at the earliest start and the latest and
\* shortest kick; four surges with the longest at the latest start and the
\* earliest and longest kick; the latest kick at its longest, which numpy
\* clips to the array
RaceDraws(duration) ==
    LET starts == Randint(5 * 60, (duration - 3) * 60)
        lengths == Randint(30, 120)
        early == <<Lowest(starts), Lowest(lengths), float64(<<11, 10>>)>>
        late == <<Highest(starts), Highest(lengths), float64(<<6, 5>>)>>
        short == [surges |-> [k \in 1..Lowest(Randint(3, 5)) |-> early],
                  kick_offset |-> Lowest(Randint(30, 60)),
                  kick_duration |-> Lowest(Randint(20, 40))]
        long == [surges |-> [k \in 1..Highest(Randint(3, 5)) |->
                                IF k % 2 = 0 THEN early ELSE late],
                 kick_offset |-> Highest(Randint(30, 60)),
                 kick_duration |-> Highest(Randint(20, 40))]
    IN  {short, long, [short EXCEPT !.kick_duration = Highest(Randint(20, 40))]}

\* Run Simulation with the Race Simulation profile: the surge start is drawn
\* from np.random.randint(5*60, (duration-3)*60), which raises when the
\* range is empty and ends the run before d_prime_balance is called
Press_RunSimulation_Race ==
    /\ session.rendered
    /\ \E duration \in RaceDurations :
        IF RandintRaises(5 * 60, (duration - 3) * 60)
        THEN /\ fn' = "np.random.randint"
             /\ args' = [duration |-> duration, low |-> 5 * 60,
                         high |-> (duration - 3) * 60,
                         profile_type |-> "Race Simulation"]
             /\ ret' = <<>>
             /\ exc' = "ValueError"
             /\ fitted' = FALSE
             /\ series' = <<>>
             /\ session' = ShowInputs(<<>>)
        ELSE \E draw \in RaceDraws(duration) :
                \E run \in Simulate(RaceSimulation(duration, session.sim_cs, draw.surges,
                                                   draw.kick_offset, draw.kick_duration),
                                    [duration |-> duration,
                                     profile_type |-> "Race Simulation",
                                     draw |-> draw]) :
                    /\ fn' = "d_prime_balance"
                    /\ args' = run.args
                    /\ ret' = run.ret
                    /\ exc' = run.exc
                    /\ fitted' = FALSE
                    /\ series' = run.series
                    /\ session' = run.session

NextUI ==
    \/ Interact
    \/ Edit_Inputs
    \/ Press_Calculate_3min
    \/ Press_Calculate_time_trials
    \/ Press_Calculate_3_5min
    \/ Press_Calculate_ramp
    \/ Press_Calculate_tte
    \/ Press_RunSimulation
    \/ Press_RunSimulation_Intervals
    \/ Press_RunSimulation_Variable
    \/ Press_RunSimulation_Race

SpecUI == Init /\ [][NextUI]_vars

(***************************************************************************)
(* Properties of d_prime_balance                                           *)
(***************************************************************************)
Simulated == fn = "d_prime_balance"
SimReturned == Simulated /\ exc = "none"
N == Len(args.speed_data)

\* every sample of the series equals v
AllSamples(v) == \A k \in 1..N : args.speed_data[k] = v

InRange(b, d_prime) == float64_le(float64_zero, b) /\ float64_le(b, d_prime)

\* |a - b| <= tol
Within(a, b, tol) ==
    /\ float64_le(float64_sub(a, b), tol)
    /\ float64_le(float64_sub(b, a), tol)

\* n * d_prime * 2^-52: n roundings of a number no larger than d_prime
Roundings(n, d_prime) ==
    float64_div(float64_mul(float(n), d_prime), float64_mul(float(2^26), float(2^26)))

\* x is a whole number, 0 <= x < 2^30
Whole(x) == float64_le(float64_zero, x) /\ float(float64_floor(x)) = x

\* C1: with threshold > 0, reserve >= 0 and tau > 0, every element of the
\* returned trace lies in [0, reserve].
C1_ClampingInvariant ==
    (/\ SimReturned
     /\ float64_lt(float64_zero, args.cs)
     /\ float64_le(float64_zero, args.d_prime)
     /\ float64_lt(float64_zero, args.tau))
    => \A k \in 1..Len(ret) : InRange(ret[k], args.d_prime)

\* a step whose unclamped value is negative was clamped to 0
C1_Witness ==
    /\ SimReturned
    /\ float64_lt(float64_zero, args.cs)
    /\ float64_lt(float64_zero, args.d_prime)
    /\ float64_lt(float64_zero, args.tau)
    /\ \E k \in 2..Len(ret) :
          /\ float64_lt(ret[k - 1], float64_sub(args.speed_data[k - 1], args.cs))
          /\ ret[k] = float64_zero

\* C2: for a non-empty series, element 0 of the returned trace equals
\* reserve, whatever the samples are.
C2_InitialCondition ==
    (SimReturned /\ N > 0) => ret[1] = args.d_prime

\* a trace whose later elements moved away from reserve
C2_Witness ==
    /\ SimReturned
    /\ N >= 2
    /\ ret[1] = args.d_prime
    /\ ret[2] # args.d_prime
    /\ args.speed_data[1] # args.speed_data[2]

\* max(0, reserve - i * c) of C3, computed in doubles
Drain(d_prime, i, c) == PyMax(float64_zero, float64_sub(d_prime, float64_mul(float(i), c)))

\* C3 as stated: if every sample of a series of length N equals
\* threshold + c for a fixed c > 0, the call returns
\* balance[i] = max(0, reserve - i * c) for every index i in 0..N-1.
C3_ConstantOverload_AsStated ==
    (/\ Simulated
     /\ N > 0
     /\ float64_lt(args.cs, args.speed_data[1])
     /\ AllSamples(args.speed_data[1]))
    => /\ exc = "none"
       /\ Len(ret) = N
       /\ \A i \in 0..(N - 1) :
             ret[i + 1] = Drain(args.d_prime, i, float64_sub(args.speed_data[1], args.cs))

\* C3 amended: if every sample equals threshold + c for a fixed c > 0 and
\* reserve >= 0, the call returns, balance[0] = reserve and
\* balance[i] = max(0, balance[i-1] - c) in double arithmetic; that is
\* max(0, reserve - i * c) to within N * reserve * 2^-52, and exactly that
\* when reserve and c are whole numbers below 2^53.
C3_ConstantOverload ==
    (/\ Simulated
     /\ N > 0
     /\ float64_le(float64_zero, args.d_prime)
     /\ float64_lt(args.cs, args.speed_data[1])
     /\ AllSamples(args.speed_data[1]))
    => \A c \in {float64_sub(args.speed_data[1], args.cs)} :
           /\ exc = "none"
           /\ Len(ret) = N
           /\ ret[1] = args.d_prime
           /\ \A i \in 1..(N - 1) :
                 ret[i + 1] = PyMax(float64_zero, float64_sub(ret[i], c))
           /\ \A i \in 0..(N - 1) :
                 Within(ret[i + 1], Drain(args.d_prime, i, c), Roundings(N, args.d_prime))
           /\ (Whole(args.d_prime) /\ Whole(c))
              => \A i \in 0..(N - 1) : ret[i + 1] = Drain(args.d_prime, i, c)

\* a constant overload by a c that is no whole number drained the reserve
\* to a balance that is not max(0, reserve - 2 * c) but within the tolerance
C3_Witness ==
    /\ SimReturned
    /\ N = 3
    /\ float64_lt(args.cs, args.speed_data[1])
    /\ AllSamples(args.speed_data[1])
    /\ float64_lt(float64_zero, ret[3]) /\ float64_lt(ret[3], ret[2])
    /\ float64_lt(ret[2], ret[1])
    /\ ret[3] # Drain(args.d_prime, 2, float64_sub(args.speed_data[1], args.cs))
    /\ Within(ret[3], Drain(args.d_prime, 2, float64_sub(args.speed_data[1], args.cs)),
              Roundings(N, args.d_prime))

\* C4: if every sample is 0 (threshold > 0, tau > 0), the call returns a
\* trace that never decreases, never exceeds reserve, and is at reserve at
\* its last element: the gap to reserve is 0 at every horizon.
C4_RestRecovery ==
    (/\ Simulated
     /\ float64_lt(float64_zero, args.cs) /\ float64_lt(float64_zero, args.tau)
     /\ AllSamples(float64_zero))
    => /\ exc = "none"
       /\ Len(ret) = N
       /\ \A k \in 1..(N - 1) : float64_le(ret[k], ret[k + 1])
       /\ \A k \in 1..N : float64_le(ret[k], args.d_prime)
       /\ N > 0 => ret[N] = args.d_prime

\* sustained rest over several steps with a positive reserve
C4_Witness ==
    /\ SimReturned
    /\ N = 3
    /\ AllSamples(float64_zero)
    /\ float64_lt(float64_zero, args.tau)
    /\ float64_lt(float64_zero, args.d_prime)
    /\ ret[3] = args.d_prime

\* C5: the returned trace has the length of the series; a series of length
\* 0 or 1 applies no transition: the call returns the empty trace or the
\* single value reserve.
C5_SameLength ==
    Simulated =>
       /\ exc = "none" => Len(ret) = N
       /\ N = 0 => (exc = "none" /\ ret = <<>>)
       /\ N = 1 => (exc = "none" /\ ret = <<args.d_prime>>)

\* a single sample above threshold, with tau = 0, leaves the value reserve
C5_Witness ==
    /\ SimReturned
    /\ N = 1
    /\ float64_lt(args.cs, args.speed_data[1])
    /\ args.tau = float64_zero
    /\ float64_lt(float64_zero, args.d_prime)
    /\ ret = <<args.d_prime>>

\* C6 as stated: for every series and threshold > 0, with no condition on
\* tau or reserve, the call completes without an error and returns a trace
\* clamped to [0, reserve].
C6_NeverFails_AsStated ==
    (Simulated /\ float64_lt(float64_zero, args.cs))
    => /\ exc = "none"
       /\ Len(ret) = N
       /\ \A k \in 1..Len(ret) : InRange(ret[k], args.d_prime)

\* C6 amended: for every series, threshold > 0, tau > 0 and reserve >= 0,
\* the call completes without an error and returns a full-length trace
\* clamped to [0, reserve].
C6_NeverFails ==
    (/\ Simulated
     /\ float64_lt(float64_zero, args.cs)
     /\ float64_lt(float64_zero, args.tau)
     /\ float64_le(float64_zero, args.d_prime))
    => /\ exc = "none"
       /\ Len(ret) = N
       /\ \A k \in 1..Len(ret) : InRange(ret[k], args.d_prime)

\* a sample equal to threshold (the division that fails when tau = 0) was
\* passed with tau > 0, after a depleting step
C6_Witness ==
    /\ SimReturned
    /\ N = 3
    /\ float64_lt(float64_zero, args.tau) /\ float64_lt(float64_zero, args.d_prime)
    /\ float64_lt(args.cs, args.speed_data[1])
    /\ args.speed_data[2] = args.cs
    /\ ret[3] = ret[2]
    /\ float64_lt(ret[2], args.d_prime)

(***************************************************************************)
(* Properties of the estimators                                            *)
(***************************************************************************)

\* C7: calculate_cs_from_3min(max, end) returns threshold = end and
\* reserve = (max - end) * 180 for every pair, without an error; when
\* max < end the reserve it returns is negative.
C7_ThreeMinute ==
    fn = "calculate_cs_from_3min" =>
       /\ exc = "none"
       /\ ret[1] = args.end_speed
       /\ RAdd(args.end_speed, RDiv(ret[2], R(180))) = args.max_speed
       /\ RLt(args.max_speed, args.end_speed) => RLt(ret[2], Zero)

\* the unordered case: max < end
C7_Witness ==
    /\ fn = "calculate_cs_from_3min"
    /\ RLt(args.max_speed, args.end_speed)
    /\ exc = "none"
    /\ RLt(ret[2], Zero)

\* C8: calculate_cs_from_3_5min(d3, d5) returns threshold = (d5 - d3) / 120
\* and reserve = d3 - threshold * 180; the line threshold * t + reserve
\* passes through (180, d3) and (300, d5).
C8_ThreeFiveMinute ==
    fn = "calculate_cs_from_3_5min" =>
       /\ exc = "none"
       /\ RMul(ret[1], R(120)) = RSub(args.distance_5min, args.distance_3min)
       /\ RAdd(RMul(ret[1], R(180)), ret[2]) = args.distance_3min
       /\ RAdd(RMul(ret[1], R(300)), ret[2]) = args.distance_5min

\* the spec's example: 800 m and 1300 m give 25/6 m/s and 50 m
C8_Witness ==
    /\ fn = "calculate_cs_from_3_5min"
    /\ args.distance_3min = R(800)
    /\ args.distance_5min = R(1300)
    /\ ret = <<(<<25, 6>>), R(50)>>

\* C9: calculate_cs_from_ramp(final, tte, rate) returns
\* threshold = final - 0.5 * rate * (tte / 60) and
\* reserve = 0.5 * rate * (tte / 60)^2; final = 5, tte = 600, rate = 0.1
\* give 4.5 and 5.
C9_Ramp ==
    fn = "calculate_cs_from_ramp" =>
       LET minutes == RDiv(args.time_to_exhaustion, R(60))
           drop == RDiv(RMul(args.ramp_rate, minutes), R(2))
       IN  /\ exc = "none"
           /\ RAdd(ret[1], drop) = args.final_speed
           /\ ret[2] = RMul(drop, minutes)
           /\ (/\ args.final_speed = R(5)
               /\ args.time_to_exhaustion = R(600)
               /\ args.ramp_rate = <<1, 10>>)
              => ret = <<(<<9, 2>>), R(5)>>

\* the spec's example was computed
C9_Witness ==
    /\ fn = "calculate_cs_from_ramp"
    /\ args.final_speed = R(5)
    /\ args.time_to_exhaustion = R(600)
    /\ args.ramp_rate = <<1, 10>>
    /\ ret = <<(<<9, 2>>), R(5)>>

\* C10: calculate_cs_from_tte returns the sentinel (0, 0), without running
\* the fit and without an error, whenever fewer than 2 speeds or fewer than
\* 2 durations are supplied.
C10_TteSentinel ==
    (/\ fn = "calculate_cs_from_tte"
     /\ (Len(args.speeds) < 2 \/ Len(args.times) < 2))
    => /\ exc = "none"
       /\ ret = <<Zero, Zero>>
       /\ ~fitted

\* exactly one (speed, duration) pair was supplied
C10_Witness ==
    /\ fn = "calculate_cs_from_tte"
    /\ Len(args.speeds) = 1
    /\ Len(args.times) = 1
    /\ ret = <<Zero, Zero>>
    /\ ~fitted

(***************************************************************************)
(* Properties of the regression estimators                                 *)
(***************************************************************************)
TimeTrials == fn = "calculate_cs_from_time_trials"
Tte == fn = "calculate_cs_from_tte"

\* the exceptions curve_fit lets through to the caller
FitError == {"TypeError", "ValueError"}

PairwiseDistinct(xs) ==
    \A i \in 1..Len(xs) : \A j \in 1..Len(xs) : i # j => xs[i] # xs[j]

\* slope and intercept of the line through (u1, y1) and (u2, y2), u1 # u2
LineSlope(u1, y1, u2, y2) == RDiv(RSub(y2, y1), RSub(u2, u1))
LineIntercept(u1, y1, u2, y2) == RSub(y1, RMul(LineSlope(u1, y1, u2, y2), u1))

\* every point (us[k], ys[k]) lies on the line through the first two
Collinear(us, ys) ==
    \A k \in 1..Len(us) :
        ys[k] = RAdd(LineIntercept(us[1], ys[1], us[2], ys[2]),
                     RMul(LineSlope(us[1], ys[1], us[2], ys[2]), us[k]))

\* C11: calculate_cs_from_time_trials called with fewer than 2 (duration,
\* distance) pairs fails with an exception that reaches the caller and
\* returns no pair.
C11_TooFewTrials ==
    (/\ TimeTrials
     /\ Len(args.times) = Len(args.distances)
     /\ Len(args.times) < 2)
    => /\ exc \in FitError
       /\ ret = <<>>

\* exactly one pair was supplied and the fit refused it
C11_Witness ==
    /\ TimeTrials
    /\ Len(args.times) = 1
    /\ Len(args.distances) = 1
    /\ exc = "TypeError"

\* C12: linear round trip.  Given N >= 2 pairs with pairwise distinct
\* durations whose distances are exactly threshold * duration + reserve,
\* calculate_cs_from_time_trials returns that (threshold, reserve); with
\* exactly 2 pairs this is the line through both points.
C12_LinearRoundTrip ==
    (/\ TimeTrials
     /\ Len(args.times) = Len(args.distances)
     /\ Len(args.times) >= 2
     /\ PairwiseDistinct(args.times)
     /\ Collinear(args.times, args.distances))
    => /\ exc = "none"
       /\ ret = <<LineSlope(args.times[1], args.distances[1],
                            args.times[2], args.distances[2]),
                  LineIntercept(args.times[1], args.distances[1],
                                args.times[2], args.distances[2])>>

\* three trials generated from threshold 3 and reserve 2 were fitted
C12_Witness ==
    /\ TimeTrials
    /\ args.times = <<R(2), R(3), R(5)>>
    /\ args.distances = <<R(8), R(11), R(17)>>
    /\ ret = <<R(3), R(2)>>

\* C13: hyperbolic round trip.  Given N >= 2 pairs with pairwise distinct
\* positive durations whose speeds are exactly threshold + reserve /
\* duration, calculate_cs_from_tte returns that (threshold, reserve).
C13_HyperbolicRoundTrip ==
    (/\ Tte
     /\ Len(args.times) = Len(args.speeds)
     /\ Len(args.times) >= 2
     /\ PairwiseDistinct(args.times)
     /\ \A k \in 1..Len(args.times) : RLt(Zero, args.times[k])
     /\ Collinear([k \in 1..Len(args.times) |-> RDiv(One, args.times[k])],
                  args.speeds))
    => /\ exc = "none"
       /\ ret = <<LineIntercept(RDiv(One, args.times[1]), args.speeds[1],
                                RDiv(One, args.times[2]), args.speeds[2]),
                  LineSlope(RDiv(One, args.times[1]), args.speeds[1],
                            RDiv(One, args.times[2]), args.speeds[2])>>

\* three tests generated from threshold 4 and reserve 2 were fitted
C13_Witness ==
    /\ Tte
    /\ args.times = <<R(1), R(2), R(4)>>
    /\ args.speeds = <<R(6), R(5), <<9, 2>>>>
    /\ ret = <<R(4), R(2)>>

\* all supplied pairs are copies of the first one
AllDuplicates(xs, ys) ==
    /\ Len(xs) = Len(ys)
    /\ Len(xs) >= 2
    /\ \A k \in 1..Len(xs) : xs[k] = xs[1] /\ ys[k] = ys[1]

\* C14: both regression estimators report an error rather than return a
\* result when the fit is singular, for example when all supplied pairs are
\* duplicates of one point.
C14_SingularFitFails ==
    /\ (TimeTrials /\ AllDuplicates(args.times, args.distances))
           => exc # "none"
    /\ (Tte /\ AllDuplicates(args.times, args.speeds))
           => exc # "none"

(***************************************************************************)
(* Properties of the race predictions                                      *)
(***************************************************************************)
\* distance_model(t, cs, d_prime) of the time-trial estimator
distance_model(t, cs, d_prime) == RAdd(RMul(cs, t), d_prime)

\* C15: race-time prediction inverts the estimator's model: for every race
\* distance the time_seconds computed by predict_race_times, fed back into
\* distance_model, gives the race distance.
C15_PredictionInvertsModel ==
    fn = "predict_race_times" /\ exc = "none"
    => \A race \in RaceNames :
           distance_model(ret[race].time_seconds, args.cs, args.d_prime)
               = RaceDistance(race)

(***************************************************************************)
(* Properties of the simulator's parameters, arrays and step               *)
(***************************************************************************)
\* the recovery step of the loop written out for a given tau:
\* min(d_prime, max(0, d_prime - (d_prime - prev) * np.exp((x - cs) / (tau * cs)))),
\* for each value np.exp can have
RecoveredWith(prev, x, cs, d_prime, tau) ==
    {PyMin(d_prime,
           PyMax(float64_zero,
                 float64_sub(d_prime, float64_mul(float64_sub(d_prime, prev), factor)))) :
        factor \in np_exp(float64_div(float64_sub(x, cs), float64_mul(tau, cs)))}

\* every step of the returned trace that follows a sample below the
\* threshold recovered with the time constant tau
RecoversWith(tau) ==
    exc = "none"
    => \A k \in 2..N :
          float64_lt(args.speed_data[k - 1], args.cs)
          => ret[k] \in RecoveredWith(ret[k - 1], args.speed_data[k - 1],
                                       args.cs, args.d_prime, tau)

C17_InputUnchanged ==
    Simulated => series = args.speed_data

\* a trace differing from the series was written and the series kept
C17_Witness ==
    /\ SimReturned
    /\ N >= 2
    /\ \E k \in 2..N : ret[k] # ret[1] /\ ret[k] # args.speed_data[k]
    /\ series = args.speed_data

\* v clamped into [0, d_prime]
ClampTo(v, d_prime) ==
    IF float64_lt(v, float64_zero) THEN float64_zero
    ELSE IF float64_lt(d_prime, v) THEN d_prime ELSE v

\* the series with its last sample replaced by v
WithLast(speed_data, v) ==
    [k \in 1..Len(speed_data) |-> IF k = Len(speed_data) THEN v ELSE speed_data[k]]

\* C18: each step i >= 1 is driven by the previous sample x[i-1]: when it
\* exceeds the threshold, balance[i] = clamp(balance[i-1] - (x[i-1] -
\* threshold)) into [0, reserve]; hence the last sample x[N-1] influences no
\* element of the result: the outcome is one of the series ending in the
\* smallest and in the largest sample instead.
C18_PreviousSample ==
    /\ (SimReturned /\ float64_le(float64_zero, args.d_prime))
       => \A k \in 2..N :
            float64_lt(args.cs, args.speed_data[k - 1])
            => ret[k] = ClampTo(float64_sub(ret[k - 1],
                                            float64_sub(args.speed_data[k - 1], args.cs)),
                                args.d_prime)
    /\ (Simulated /\ N >= 1)
       => \A v \in {float64_zero, float(MaxSpeed)} :
            \E out \in d_prime_balance(WithLast(args.speed_data, v),
                                       args.cs, args.d_prime, args.tau) :
                out.ret = ret /\ out.exc = exc

\* a step after a sample above the threshold depleted although the current
\* sample is not above it
C18_Witness ==
    /\ SimReturned
    /\ float64_le(float64_zero, args.d_prime)
    /\ \E k \in 2..N : /\ float64_lt(args.cs, args.speed_data[k - 1])
                       /\ float64_le(args.speed_data[k], args.cs)
                       /\ float64_lt(ret[k], ret[k - 1])
                       /\ float64_lt(float64_zero, ret[k])

\* C20 as stated: with threshold > 0, tau > 0 and reserve >= 0, depletion
\* and recovery never cross: a sample x[i-1] above the threshold never
\* raises the balance, a sample at or below it never lowers the balance, and
\* at x[i-1] = threshold exactly the balance is unchanged.
C20_NeverCross_AsStated ==
    (/\ SimReturned
     /\ float64_lt(float64_zero, args.cs)
     /\ float64_lt(float64_zero, args.tau)
     /\ float64_le(float64_zero, args.d_prime))
    => \A k \in 2..N :
        /\ float64_lt(args.cs, args.speed_data[k - 1]) => float64_le(ret[k], ret[k - 1])
        /\ float64_le(args.speed_data[k - 1], args.cs) => float64_le(ret[k - 1], ret[k])
        /\ args.speed_data[k - 1] = args.cs => ret[k] = ret[k - 1]

\* C20 amended: with threshold > 0, tau > 0 and reserve >= 0, a sample
\* x[i-1] above the threshold never raises the balance; a sample at or below
\* it never lowers the balance by more than the rounding of the recovery
\* step, 4 * reserve * 2^-52; at x[i-1] = threshold the balance is unchanged
\* to within that rounding, and exactly unchanged when the balance and the
\* reserve are whole numbers below 2^53.
C20_NeverCross ==
    (/\ SimReturned
     /\ float64_lt(float64_zero, args.cs)
     /\ float64_lt(float64_zero, args.tau)
     /\ float64_le(float64_zero, args.d_prime))
    => \A k \in 2..N :
        /\ float64_lt(args.cs, args.speed_data[k - 1]) => float64_le(ret[k], ret[k - 1])
        /\ float64_le(args.speed_data[k - 1], args.cs)
           => float64_le(float64_sub(ret[k - 1], ret[k]), Roundings(4, args.d_prime))
        /\ args.speed_data[k - 1] = args.cs
           => /\ Within(ret[k], ret[k - 1], Roundings(4, args.d_prime))
              /\ (Whole(ret[k - 1]) /\ Whole(args.d_prime)) => ret[k] = ret[k - 1]

\* a balance that is no whole number was lowered across a sample equal to
\* the threshold, by no more than the rounding
C20_Witness ==
    /\ SimReturned
    /\ float64_lt(float64_zero, args.tau)
    /\ \E k \in 3..N :
          /\ args.speed_data[k - 1] = args.cs
          /\ float64_lt(float64_zero, ret[k])
          /\ float64_lt(ret[k], ret[k - 1])
          /\ float64_lt(ret[k - 1], args.d_prime)
          /\ Within(ret[k], ret[k - 1], Roundings(4, args.d_prime))

(***************************************************************************)
(* Properties of the page                                                  *)
(***************************************************************************)
\* C19: the simulator's threshold and reserve are seeded from the last
\* estimation: once a press of Calculate has produced (cs, d_prime), a
\* simulation started afterwards by pressing Run Simulation calls
\* d_prime_balance with those values; the manual values are used only when
\* no estimation has been run.
C19_SeededFromEstimate ==
    (Simulated /\ session.estimate # <<>>)
    => /\ args.cs = float64(session.estimate[1])
       /\ args.d_prime = float64(session.estimate[2])

\* C21: full reserve is a fixed point of recovery: if every sample is at or
\* below the threshold (threshold > 0, tau > 0), every element of the trace
\* equals reserve, so the reported minimum balance is reserve and the
\* reported D' expended is 0.
C21_FullReserveFixedPoint ==
    (/\ Simulated
     /\ float64_lt(float64_zero, args.cs) /\ float64_lt(float64_zero, args.tau)
     /\ \A k \in 1..N : float64_le(args.speed_data[k], args.cs))
    => /\ exc = "none"
       /\ Len(ret) = N
       /\ \A k \in 1..N : ret[k] = args.d_prime
       /\ N > 0 => /\ min_balance(ret) = args.d_prime
                   /\ d_prime_expended(args.d_prime, ret) = float64_zero

\* three samples, one below and one at the threshold, left a positive
\* reserve untouched
C21_Witness ==
    /\ SimReturned
    /\ N = 3
    /\ float64_lt(float64_zero, args.tau)
    /\ float64_lt(float64_zero, args.d_prime)
    /\ float64_lt(args.speed_data[1], args.cs)
    /\ args.speed_data[2] = args.cs
    /\ \A k \in 1..N : float64_le(args.speed_data[k], args.cs)
    /\ ret = <<args.d_prime, args.d_prime, args.d_prime>>
    /\ d_prime_expended(args.d_prime, ret) = float64_zero

\* C22: for every run duration the slider allows and every outcome of the
\* random draws, a run of the Race Simulation completes without an error and
\* hands d_prime_balance a series of exactly duration * 60 samples; in
\* particular the range the surge start is drawn from is never empty.
C22_RaceSimulationNeverFails ==
    (/\ fn # "none"
     /\ "profile_type" \in DOMAIN args
     /\ args.profile_type = "Race Simulation")
    => /\ exc = "none"
       /\ fn = "d_prime_balance"
       /\ Len(args.speed_data) = args.duration * SamplesPerMinute
       /\ ~RandintRaises(5 * 60, (args.duration - 3) * 60)

====
